---- MODULE Spec2Model ----
(***************************************************************************)
(* A model of cvmfs-server-scraper: the per-server scrape (Server::scrape  *)
(* in src/models/servers.rs), the batch driver (scrape_servers in          *)
(* src/scraper.rs) and the builder's pre-flight validation.                *)
(*                                                                         *)
(* Every `.await` on a network fetch is a suspension point of a server     *)
(* task: one action of the model is the code that runs between two         *)
(* suspension points of one task.  The answer of the remote host to a      *)
(* request is chosen by the environment when the task resumes.             *)
(***************************************************************************)
EXTENDS Integers, Sequences, FiniteSets, TLC

(***************************************************************************)
(* Bounds of the model.                                                    *)
(***************************************************************************)
\* Longest forced-repository list handed to a scrape.
MaxForced == 2
\* Longest ignore list handed to a scrape.
MaxIgnored == 1
\* Number of servers of a batch scrape (BatchSpec).
NServers == 2

(***************************************************************************)
(* Option<T> is a sequence of length at most one; Result<T, E> a record.   *)
(***************************************************************************)
None == << >>
Some(v) == << v >>
is_some(o) == Len(o) > 0
unwrap(o) == o[1]
Ok(v) == [ok |-> TRUE, val |-> Some(v), err |-> None]
Err(e) == [ok |-> FALSE, val |-> None, err |-> Some(e)]
Range(s) == {s[k] : k \in 1..Len(s)}

(***************************************************************************)
(* Repository names.  String's Ord is the lexicographic order; RepoNames   *)
(* lists the names of the model in that order.                             *)
(***************************************************************************)
RepoNames == << "dev.eessi.io", "riscv.eessi.io", "software.eessi.io" >>
Names == Range(RepoNames)
Rank(n) == CHOOSE k \in 1..Len(RepoNames) : RepoNames[k] = n
\* The names the caller may force or ignore.
ForcedNames == {"riscv.eessi.io", "dev.eessi.io"}
IgnoredNames == {"dev.eessi.io", "software.eessi.io"}

SeqsUpTo(S, n) == UNION {[1..k -> S] : k \in 0..n}

\* Fault injection: the names are iterated in descending order.
RECURSIVE BTreeSetIter_descending(_)
BTreeSetIter_descending(S) ==
    IF S = {} THEN << >>
    ELSE LET m == CHOOSE x \in S : \A y \in S : Rank(x) >= Rank(y)
         IN  << m >> \o BTreeSetIter_descending(S \ {m})

\* Iteration order of a BTreeSet<String>: ascending.
RECURSIVE BTreeSetIter(_)
BTreeSetIter(S) ==
    IF S = {} THEN << >>
    ELSE LET m == CHOOSE x \in S : \A y \in S : Rank(x) <= Rank(y)
         IN  << m >> \o BTreeSetIter(S \ {m})

(***************************************************************************)
(* Servers.                                                                *)
(***************************************************************************)
ServerType == {"Stratum0", "Stratum1", "SyncServer"}
ServerBackendType == {"S3", "CVMFS", "AutoDetect"}
Hostnames == << "h1.example.org", "h2.example.org", "h3.example.org", "h4.example.org" >>
Server(st, bt, h) == [server_type |-> st, backend_type |-> bt, hostname |-> h]

DEFAULT_GEOAPI_SERVERS ==
    << "cvmfs-s1fnal.opensciencegrid.org", "cvmfs-stratum-one.cern.ch",
       "cvmfs-stratum-one.ihep.ac.cn" >>

(***************************************************************************)
(* Errors: the enum (wrapper), its variant (kind) and what the message     *)
(* names (detail).                                                         *)
(***************************************************************************)
ScrapeError(kind, detail) == [wrapper |-> "ScrapeError", kind |-> kind, detail |-> detail]
ManifestError(kind, detail) == [wrapper |-> "ManifestError", kind |-> kind, detail |-> detail]

(***************************************************************************)
(* Requests and responses.                                                 *)
(***************************************************************************)
\* The token is the random string of a GeoAPI url; other urls have none.
Request(endpoint, repo, hosts) ==
    [endpoint |-> endpoint, repo |-> repo, token |-> "", hosts |-> hosts]
ReposJsonRequest == Request("cvmfs/info/v1/repositories.json", "", << >>)
MetaJsonRequest == Request("cvmfs/info/v1/meta.json", "", << >>)
StatusRequest(name) == Request(".cvmfs_status.json", name, << >>)
ManifestRequest(name) == Request(".cvmfspublished", name, << >>)
GeoapiRequest(name, random_string, hosts) ==
    [Request("api/v1.0/geo", name, hosts) EXCEPT !.token = random_string]

\* A response: the transport failed, the status was not 2xx, or a body came.
\* A body is either malformed for its endpoint or carries a value.
FailedResponse(net) == [net |-> net, wellformed |-> FALSE, val |-> None]
MalformedBody == [net |-> "ok", wellformed |-> FALSE, val |-> None]
Body(v) == [net |-> "ok", wellformed |-> TRUE, val |-> Some(v)]

RepositoriesJSONRepo(n) == [name |-> n, url |-> n]
RepoList(names) == [k \in 1..Len(names) |-> RepositoriesJSONRepo(names[k])]
\* A body without cvmfs_version carries a date that lacks the time zone.
RepositoriesJSON(repositories, replicas, version) ==
    [schema |-> 1,
     last_geodb_update |-> IF version = None THEN Some("Tue Jun 18 13:40:04 2024")
                           ELSE Some("Tue Jun 18 13:40:04 UTC 2024"),
     cvmfs_version |-> version,
     os_id |-> Some("rhel"),
     os_version_id |-> Some("9.4"),
     os_pretty_name |-> Some("Red Hat Enterprise Linux 9.4 (Plow)"),
     repositories |-> RepoList(repositories),
     replicas |-> RepoList(replicas)]

\* Version strings: semver::Version accepts the first two and rejects the third.
ValidSemver == {"2.11.3-1", "2.8.4"}
semver_parse(v) == IF v \in ValidSemver THEN Ok(v) ELSE Err("unexpected end of input")

AdvertisedLists ==
    { << << >>, << >> >>,
      << << "software.eessi.io", "dev.eessi.io" >>, << >> >>,
      << << >>, << "software.eessi.io", "dev.eessi.io" >> >>,
      << << "riscv.eessi.io", "dev.eessi.io" >>, << "dev.eessi.io" >> >> }
AllReposJsonBodies ==
    { RepositoriesJSON(l[1], l[2], Some("2.11.3-1")) : l \in AdvertisedLists }
    \cup { RepositoriesJSON(<< "software.eessi.io", "dev.eessi.io" >>, << >>, v) :
             v \in {None, Some("2.11")} }
    \cup { RepositoriesJSON(<< >>, << "software.eessi.io", "dev.eessi.io" >>, v) :
             v \in {None, Some("2.11")} }

\* The status of a repository; its last_gc lacks the time zone.
StatusJSON == [last_snapshot |-> Some("Fri Jun 21 17:40:02 UTC 2024"),
               last_gc |-> Some("Sun Jun 16 00:00:59 2024")]

\* NaiveDateTime::parse_from_str(date_str, "%a %b %d %H:%M:%S %Z %Y") on the
\* date strings of the model: year, month, day, hour, minute, second.
ParsedDates ==
    [x \in {"Tue Jun 18 13:40:04 UTC 2024", "Fri Jun 21 17:40:02 UTC 2024"} |->
        IF x = "Tue Jun 18 13:40:04 UTC 2024" THEN << 2024, 6, 18, 13, 40, 4 >>
        ELSE << 2024, 6, 21, 17, 40, 2 >>]
\* MaybeRfc2822DateTime::try_into_datetime
try_into_datetime(self) ==
    IF self = None THEN Ok(None)
    ELSE IF unwrap(self) \in DOMAIN ParsedDates THEN Ok(Some(ParsedDates[unwrap(self)]))
    ELSE Err(ScrapeError("ConversionError", self))
MetaJSON == [administrator |-> "EESSI CVMFS Administrators", email |-> "support@eessi.io",
             organisation |-> "EESSI", custom |-> "{}"]
\* GeoAPI response bodies, as text (a sequence of characters).
AllGeoBodies ==
    { << "1", ",", "0", ",", "2", "\n" >>,
      << "3", ",", "1", ",", "2" >>,
      << "1", ",", "x" >>,
      << >> }

(***************************************************************************)
(* Text helpers.  A text is a sequence of one-character strings.           *)
(***************************************************************************)
Digits == << "0", "1", "2", "3", "4", "5", "6", "7", "8", "9" >>
IsDigit(c) == c \in Range(Digits)
DigitVal(c) == (CHOOSE k \in 1..10 : Digits[k] = c) - 1
HexUpper == << "A", "B", "C", "D", "E", "F" >>
HexLower == << "a", "b", "c", "d", "e", "f" >>
is_ascii_hexdigit(c) == IsDigit(c) \/ c \in Range(HexUpper) \/ c \in Range(HexLower)
UpperLetters == HexUpper \o << "Y", "S", "N", "O" >>
LowerLetters == HexLower \o << "y", "s", "n", "o" >>
char_to_lowercase(c) ==
    IF c \in Range(UpperLetters)
    THEN LowerLetters[CHOOSE k \in 1..Len(UpperLetters) : UpperLetters[k] = c]
    ELSE c
to_lowercase(s) == [k \in 1..Len(s) |-> char_to_lowercase(s[k])]
IsWhitespace(c) == c \in {" ", "\n", "\t"}

RECURSIVE trim_start(_)
trim_start(s) ==
    IF s # << >> /\ IsWhitespace(Head(s)) THEN trim_start(Tail(s)) ELSE s
RECURSIVE trim_end(_)
trim_end(s) ==
    IF s # << >> /\ IsWhitespace(s[Len(s)]) THEN trim_end(SubSeq(s, 1, Len(s) - 1)) ELSE s
trim(s) == trim_end(trim_start(s))

\* Position of the first occurrence of c in s, 0 when there is none.
IndexOf(s, c) ==
    IF \E k \in 1..Len(s) : s[k] = c
    THEN CHOOSE k \in 1..Len(s) : s[k] = c /\ \A j \in 1..(k - 1) : s[j] # c
    ELSE 0

\* str::split(c): always at least one piece; the pieces may be empty.
RECURSIVE split(_, _)
split(s, c) ==
    LET k == IndexOf(s, c)
    IN  IF k = 0 THEN << s >>
        ELSE << SubSeq(s, 1, k - 1) >> \o split(SubSeq(s, k + 1, Len(s)), c)

\* str::lines(): the lines without their terminator; no line after a final "\n".
RECURSIVE lines(_)
lines(s) ==
    IF s = << >> THEN << >>
    ELSE LET k == IndexOf(s, "\n")
         IN  IF k = 0 THEN << s >>
             ELSE << SubSeq(s, 1, k - 1) >> \o lines(SubSeq(s, k + 1, Len(s)))

\* i32::MAX, the largest value of the manifest's i32 fields (D, S).
I32_MAX == 2147483647

\* The digits of a number of a type of the given width.  The model's integers
\* are 32 bits wide: the overflow branch exists for i32 only, and the texts of
\* the model hold no i64 or u32 number beyond 32 bits.
RECURSIVE parse_digits(_, _, _)
parse_digits(s, acc, is_i32) ==
    IF s = << >> THEN Ok(acc)
    ELSE IF ~IsDigit(Head(s)) THEN Err("invalid digit found in string")
    ELSE IF is_i32 /\ acc > (I32_MAX - DigitVal(Head(s))) \div 10
         THEN Err("number too large to fit in target type")
    ELSE parse_digits(Tail(s), acc * 10 + DigitVal(Head(s)), is_i32)

\* str::parse::<u32>(): an optional "+", then at least one digit.
parse_u32(s) ==
    IF s = << >> THEN Err("cannot parse integer from empty string")
    ELSE IF s = << "+" >> THEN Err("invalid digit found in string")
    ELSE IF Head(s) = "+" THEN parse_digits(Tail(s), 0, FALSE)
    ELSE parse_digits(s, 0, FALSE)

\* str::parse::<i64>() and ::<i32>(): an optional sign, then at least one digit.
parse_signed(s, is_i32) ==
    IF s = << >> THEN Err("cannot parse integer from empty string")
    ELSE IF s \in {<< "+" >>, << "-" >>} THEN Err("invalid digit found in string")
    ELSE IF Head(s) = "+" THEN parse_digits(Tail(s), 0, is_i32)
    ELSE IF Head(s) = "-"
         THEN LET r == parse_digits(Tail(s), 0, is_i32)
              IN  IF r.ok THEN Ok(0 - unwrap(r.val)) ELSE r
    ELSE parse_digits(s, 0, is_i32)

(***************************************************************************)
(* The manifest parser (.cvmfspublished).                                  *)
(***************************************************************************)
\* A panic: the call returns nothing, the stack unwinds.
Panic == [ok |-> FALSE, val |-> None, err |-> None]
is_panic(r) == ~r.ok /\ r.err = None

\* HashMap::insert and HashMap::get
insert(data, key, value) ==
    [x \in (DOMAIN data) \cup {key} |-> IF x = key THEN value ELSE data[x]]
get(data, key) == IF key \in DOMAIN data THEN Some(data[key]) ELSE None
EmptyMap == [x \in {} |-> << >>]

HexString_new(s) ==
    IF Len(s) % 2 = 0 /\ \A k \in 1..Len(s) : is_ascii_hexdigit(s[k])
    THEN Ok(to_lowercase(s))
    ELSE Err(ManifestError("InvalidHex", s))

parse_boolean_field(data, key) ==
    IF get(data, key) = None THEN Err(ManifestError("MissingField", << key >>))
    ELSE Ok(to_lowercase(unwrap(get(data, key))) = << "y", "e", "s" >>)

parse_hex_field(data, key) ==
    IF get(data, key) = None THEN Err(ManifestError("MissingField", << key >>))
    ELSE HexString_new(unwrap(get(data, key)))

parse_number_field(data, key, is_i32) ==
    IF get(data, key) = None THEN Err(ManifestError("MissingField", << key >>))
    ELSE LET r == parse_signed(unwrap(get(data, key)), is_i32)
         IN  IF r.ok THEN r ELSE Err(ManifestError("ParseError", << key, unwrap(r.err) >>))

parse_string_field(data, key) ==
    IF get(data, key) = None THEN Err(ManifestError("MissingField", << key >>))
    ELSE Ok(unwrap(get(data, key)))

\* The loop over content.lines(): an empty line before the "--" marker makes
\* line.chars().next().unwrap() panic.
RECURSIVE read_lines(_, _, _, _)
read_lines(ls, data, signature, is_signature) ==
    IF ls = << >> THEN Ok([data |-> data, signature |-> signature])
    ELSE LET line == Head(ls)
         IN  IF line = << "-", "-" >> THEN read_lines(Tail(ls), data, signature, TRUE)
             ELSE IF is_signature
                  THEN read_lines(Tail(ls), data, signature \o line, TRUE)
             ELSE IF line = << >> THEN Panic
             ELSE read_lines(Tail(ls), insert(data, Head(line), Tail(line)), signature, FALSE)

\* The fields in the order the struct literal evaluates them; each `?` returns
\* the first error.
FieldOrder == << "C", "B", "A", "R", "X", "G", "H", "T", "D", "S", "N", "M", "Y" >>
parse_field(data, key) ==
    IF key \in {"C", "R", "X", "H", "M", "Y"} THEN parse_hex_field(data, key)
    ELSE IF key \in {"A", "G"} THEN parse_boolean_field(data, key)
    ELSE IF key \in {"B", "T"} THEN parse_number_field(data, key, FALSE)
    ELSE IF key \in {"D", "S"} THEN parse_number_field(data, key, TRUE)
    ELSE parse_string_field(data, key)

Manifest_from_str(content) ==
    LET read == read_lines(lines(content), EmptyMap, << >>, FALSE)
    IN  IF ~read.ok THEN read
        ELSE LET data == unwrap(read.val).data
                 bad == {k \in 1..Len(FieldOrder) : ~parse_field(data, FieldOrder[k]).ok}
                 f(key) == unwrap(parse_field(data, key).val)
             IN  IF bad # {}
                 THEN parse_field(data, FieldOrder[CHOOSE k \in bad : \A j \in bad : k <= j])
                 ELSE Ok([c |-> f("C"), b |-> f("B"), a |-> f("A"), r |-> f("R"),
                          x |-> f("X"), g |-> f("G"), h |-> f("H"), t |-> f("T"),
                          d |-> f("D"), s |-> f("S"), n |-> f("N"), m |-> f("M"),
                          y |-> f("Y"),
                          l |-> IF get(data, "L") = None THEN << >> ELSE unwrap(get(data, "L")),
                          signature |-> unwrap(read.val).signature])

\* Manifest texts.
ManifestLine(l) == l \o << "\n" >>
GoodManifestText ==
    ManifestLine(<< "C", "A", "b" >>) \o ManifestLine(<< "B", "4", "2" >>)
    \o ManifestLine(<< "A", "n", "o" >>) \o ManifestLine(<< "R", "d", "4" >>)
    \o ManifestLine(<< "X" >>) \o ManifestLine(<< "G", "Y", "e", "s" >>)
    \o ManifestLine(<< "H", "0", "f" >>) \o ManifestLine(<< "T", "1", "7" >>)
    \o ManifestLine(<< "D", "2", "4", "0" >>) \o ManifestLine(<< "S", "7" >>)
    \o ManifestLine(<< "N", "d", "e", "v" >>) \o ManifestLine(<< "M", "1", "2" >>)
    \o ManifestLine(<< "Y", "e", "e" >>) \o ManifestLine(<< "-", "-" >>)
    \o << "s", "i", "g" >>
\* An empty body, and a body that starts with an empty line.
EmptyManifestText == << >>
BlankLineManifestText == << "\n" >> \o GoodManifestText
AllManifestTexts == {GoodManifestText, EmptyManifestText, BlankLineManifestText}

(***************************************************************************)
(* The environment: what the remote hosts may answer in a run.             *)
(***************************************************************************)
NetFaults == {"transport_error", "http_error"}
\* The strings generate_random_string(12) may return.
RandomStrings == {"k3J9xQ2mZp7L", "Wb8rT1yU6nEa"}
FullEnv == [faults |-> NetFaults \cup {"malformed"},
            random_strings |-> {"k3J9xQ2mZp7L"},
            repos_json |-> AllReposJsonBodies,
            manifests |-> AllManifestTexts,
            geo |-> AllGeoBodies]
\* The hosts of a batch: a fetch fails in transit or succeeds.
BatchEnv == [faults |-> {"transport_error"},
             random_strings |-> RandomStrings,
             repos_json |-> {RepositoriesJSON(<< >>, << "dev.eessi.io" >>, Some("2.11.3-1")),
                             RepositoriesJSON(<< "dev.eessi.io" >>, << >>, Some("2.11"))},
             manifests |-> {GoodManifestText, BlankLineManifestText},
             geo |-> {<< "1", ",", "0", ",", "2", "\n" >>}]

CustomGeoapiHosts == << "cvmfs-stratum-one.cern.ch", "cvmfs-s1fnal.opensciencegrid.org" >>
\* Server::scrape is given no list or an empty one; the builder keeps its default
\* list or is given a list of its own.
GeoapiInputs(how) ==
    IF how = "direct" THEN {None, Some(<< >>)} ELSE {None, Some(CustomGeoapiHosts)}

VARIABLES
    servers,                    \* the servers to scrape: Vec<Server>
    repositories,               \* the forced repositories
    ignored_repositories,       \* the ignored repositories
    only_scrape_forced_repos,   \* the only-forced flag
    geoapi_hosts,               \* the GeoAPI hosts given by the caller, if any
    entry,                      \* "builder": Scraper...validate()?.scrape(); "direct": Server::scrape
    env,                        \* what the remote hosts may answer
    phase,                      \* where the caller stands
    task,                       \* the server tasks (the futures of Server::scrape)
    finish_order,               \* the tasks in the order they completed
    results,                    \* what scrape_servers returned, once it has
    receiver,                   \* the value a caller of the library holds, if any
    call                        \* the library function called on it and what it returned

config == << servers, repositories, ignored_repositories, only_scrape_forced_repos,
             geoapi_hosts, entry, env >>
vars == << servers, repositories, ignored_repositories, only_scrape_forced_repos,
           geoapi_hosts, entry, env, phase, task, finish_order, results, receiver, call >>
library == << receiver, call >>

Tasks == 1..Len(servers)
\* No value is held: the run is a scrape.
Nothing == [kind |-> "none"]

EmptyRepoMetadata ==
    [schema_version |-> None, cvmfs_version |-> None, last_geodb_update |-> None,
     os_version_id |-> None, os_pretty_name |-> None, os_id |-> None]

\* A future of Server::scrape that was not polled yet.
NewTask ==
    [pc |-> "created", ignore |-> {}, all_repos |-> {}, todo |-> << >>,
     repo_status |-> None, populated_repos |-> << >>, backend_detected |-> "",
     metadata |-> EmptyRepoMetadata, server_metadata |-> None, geoapi_servers |-> << >>,
     out |-> None, sent |-> << >>, recv |-> << >>]

(***************************************************************************)
(* Fetching.                                                               *)
(***************************************************************************)
Url(self, req) == << self.hostname, req.endpoint, req.repo >>

\* utilities::fetch_json: a transport failure and a non-2xx status are a
\* FetchError, a body that does not deserialize is a ParseError.
fetch_json(self, req, resp) ==
    IF resp.net # "ok" THEN Err(ScrapeError("FetchError", Url(self, req)))
    ELSE IF ~resp.wellformed THEN Err(ScrapeError("ParseError", Url(self, req)))
    ELSE Ok(unwrap(resp.val))

\* utilities::fetch_text
fetch_text(self, req, resp) ==
    IF resp.net # "ok" THEN Err(ScrapeError("FetchError", Url(self, req)))
    ELSE Ok(unwrap(resp.val))

\* RepositoryOrReplica::fetch_repository_manifest
fetch_repository_manifest(self, req, resp) ==
    IF resp.net # "ok" THEN Err(ManifestError("FetchError", Url(self, req)))
    ELSE Manifest_from_str(unwrap(resp.val))

Faults == {FailedResponse(f) : f \in env.faults \cap NetFaults}
JsonResponses(vals) ==
    Faults \cup (IF "malformed" \in env.faults THEN {MalformedBody} ELSE {})
           \cup {Body(v) : v \in vals}
TextResponses(texts) == Faults \cup {Body(x) : x \in texts}

(***************************************************************************)
(* Server::scrape and its helpers.                                         *)
(***************************************************************************)
\* Fault injection: an AutoDetect server is reported with a resolved backend.
to_failed_server_resolved(self, error) ==
    [tag |-> "Failed", hostname |-> self.hostname, server_type |-> self.server_type,
     backend_type |-> IF self.backend_type = "AutoDetect" THEN "CVMFS"
                      ELSE self.backend_type,
     error |-> error]

to_failed_server(self, error) ==
    [tag |-> "Failed", hostname |-> self.hostname, server_type |-> self.server_type,
     backend_type |-> self.backend_type, error |-> error]

PopulatedServer(self, t, metadata, geoapi) ==
    [tag |-> "Populated", server_type |-> self.server_type,
     backend_type |-> self.backend_type, backend_detected |-> t.backend_detected,
     hostname |-> self.hostname, repositories |-> t.populated_repos,
     metadata |-> metadata, geoapi |-> geoapi]

GeoapiServerQuery(self, hosts, response) ==
    [hostname |-> self.hostname, geoapi_hosts |-> hosts, response |-> response]

\* `return ScrapedServer::...`: the future completes with its output.
Return(t, scraped) == [t EXCEPT !.pc = "done", !.out = Some(scraped)]
\* A request is sent and the task suspends until the answer is there.
Await(t, req, pc) == [t EXCEPT !.pc = pc, !.sent = Append(@, req)]
\* The task unwinds.
Unwind(t) == [t EXCEPT !.pc = "panicked"]

validate_repo_json_and_server_type(self, repo_json) ==
    LET no_replicas == repo_json.replicas = << >>
        mismatch(found) ==
            Err(ScrapeError("ServerTypeMismatch", << self.hostname, self.server_type, found >>))
    IN  IF self.server_type = "Stratum0" /\ ~no_replicas THEN mismatch("replicas were found")
        ELSE IF self.server_type = "Stratum1" /\ no_replicas
             THEN mismatch("no replicas were found")
        ELSE IF self.server_type = "SyncServer" /\ no_replicas
             THEN mismatch("no replicas were found")
        ELSE Ok("unit")

\* Fault injection: the date of the self-description is converted, and the
\* conversion error returned.
MetadataFromRepoJSON_try_from_converts_date(repo_json) ==
    IF ~try_into_datetime(repo_json.last_geodb_update).ok
    THEN try_into_datetime(repo_json.last_geodb_update)
    ELSE Ok([schema_version |-> Some(repo_json.schema),
             cvmfs_version |-> None,
             last_geodb_update |-> repo_json.last_geodb_update,
             os_version_id |-> repo_json.os_version_id,
             os_pretty_name |-> repo_json.os_pretty_name,
             os_id |-> repo_json.os_id])

MetadataFromRepoJSON_try_from(repo_json) ==
    LET parsed == IF repo_json.cvmfs_version = None THEN Ok(None)
                  ELSE LET r == semver_parse(unwrap(repo_json.cvmfs_version))
                       IN  IF r.ok THEN Ok(r.val)
                           ELSE Err(ScrapeError("ConversionError", r.err))
    IN  IF ~parsed.ok THEN parsed
        ELSE Ok([schema_version |-> Some(repo_json.schema),
                 cvmfs_version |-> unwrap(parsed.val),
                 last_geodb_update |-> repo_json.last_geodb_update,
                 os_version_id |-> repo_json.os_version_id,
                 os_pretty_name |-> repo_json.os_pretty_name,
                 os_id |-> repo_json.os_id])

\* Fault injection: the replicas are left out.
repositories_only(repo_json) == repo_json.repositories
repositories_and_replicas(repo_json) == repo_json.repositories \o repo_json.replicas

\* Fault injection: the advertised names are not filtered by the ignore list.
extend_all_repos_unfiltered(all_repos, repo_json, ignore, only_forced) ==
    IF ~only_forced
    THEN all_repos \cup {r.name : r \in Range(repositories_and_replicas(repo_json))}
    ELSE all_repos
\* Fault injection: the advertised names are added whatever the flag.
extend_all_repos_whatever_flag(all_repos, repo_json, ignore, only_forced) ==
    all_repos \cup {r.name : r \in {x \in Range(repositories_and_replicas(repo_json)) :
                                       x.name \notin ignore}}

\* all_repos.extend(...) under `if !only_scrape_forced_repos`
extend_all_repos(all_repos, repo_json, ignore, only_forced) ==
    IF ~only_forced
    THEN all_repos \cup {r.name : r \in {x \in Range(repositories_and_replicas(repo_json)) :
                                          x.name \notin ignore}}
    ELSE all_repos

\* The head of `for repo in all_repos`: the next repository's status fetch, or,
\* after the last one, the meta.json fetch.
NextRepository(t) ==
    IF t.todo = << >> THEN Await(t, MetaJsonRequest, "meta_json")
    ELSE Await(t, StatusRequest(Head(t.todo)), "status")
\* Fault injection: meta.json is fetched before the repositories are.
ForAllRepos_meta_first(t) ==
    Await([t EXCEPT !.todo = BTreeSetIter(t.all_repos)], MetaJsonRequest, "meta_json")
ForAllRepos(t) == NextRepository([t EXCEPT !.todo = BTreeSetIter(t.all_repos)])

\* Fault injection: the S3 branch without its check of an empty list.
S3Branch_no_empty_check(t, self) == ForAllRepos(t)

\* ServerBackendType::S3 => { if all_repos.is_empty() { return Failed } }
S3Branch(t, self) ==
    IF t.all_repos = {}
    THEN Return(t, to_failed_server(self, ScrapeError("EmptyRepositoryList", << self.hostname >>)))
    ELSE ForAllRepos(t)

\* Fault injection: repositories.json is fetched whatever the backend.
scrape_start_always_fetches(t, self, args) ==
    LET ignore == Range(args.ignored_repositories)
    IN  Await([t EXCEPT
                 !.geoapi_servers = IF args.geoapi_servers = None THEN DEFAULT_GEOAPI_SERVERS
                                    ELSE unwrap(args.geoapi_servers),
                 !.ignore = ignore,
                 !.all_repos = {r \in Range(args.repositories) : r \notin ignore},
                 !.backend_detected = self.backend_type],
              ReposJsonRequest, "repos_json")

\* The start of Server::scrape, up to the first fetch.
scrape_start(t, self, args) ==
    LET ignore == Range(args.ignored_repositories)
        t1 == [t EXCEPT
                 !.geoapi_servers = IF args.geoapi_servers = None THEN DEFAULT_GEOAPI_SERVERS
                                    ELSE unwrap(args.geoapi_servers),
                 !.ignore = ignore,
                 !.all_repos = {r \in Range(args.repositories) : r \notin ignore},
                 !.backend_detected = self.backend_type]
    IN  IF self.backend_type = "S3" THEN S3Branch(t1, self)
        ELSE Await(t1, ReposJsonRequest, "repos_json")

\* Fault injection: AutoDetect fails on a FetchError too.
AutoDetectFetchFailed_no_fallback(t, self, error) == Return(t, to_failed_server(self, error))
\* Fault injection: AutoDetect takes any error of the fetch for S3.
AutoDetectFetchFailed_any_error(t, self, error) ==
    ForAllRepos([t EXCEPT !.backend_detected = "S3"])

\* AutoDetect, Err(error): a FetchError means S3, any other error fails.
AutoDetectFetchFailed(t, self, error) ==
    IF error.kind = "FetchError"
    THEN ForAllRepos([t EXCEPT !.backend_detected = "S3"])
    ELSE Return(t, to_failed_server(self, error))

\* Fault injection: AutoDetect does not record that it detected CVMFS.
AutoDetectFetched_undetected(t, self, repo_json, only_forced) ==
    LET valid == validate_repo_json_and_server_type(self, repo_json)
        meta == MetadataFromRepoJSON_try_from(repo_json)
    IN  IF ~valid.ok THEN Return(t, to_failed_server(self, unwrap(valid.err)))
        ELSE IF ~meta.ok THEN Return(t, to_failed_server(self, unwrap(meta.err)))
        ELSE ForAllRepos([t EXCEPT
                 !.metadata = unwrap(meta.val),
                 !.all_repos = extend_all_repos(@, repo_json, t.ignore, only_forced)])

\* AutoDetect, Ok(repo_json): the role check, then the metadata conversion.
AutoDetectFetched(t, self, repo_json, only_forced) ==
    LET valid == validate_repo_json_and_server_type(self, repo_json)
        meta == MetadataFromRepoJSON_try_from(repo_json)
    IN  IF ~valid.ok THEN Return(t, to_failed_server(self, unwrap(valid.err)))
        ELSE IF ~meta.ok THEN Return(t, to_failed_server(self, unwrap(meta.err)))
        ELSE ForAllRepos([t EXCEPT
                 !.metadata = unwrap(meta.val),
                 !.backend_detected = "CVMFS",
                 !.all_repos = extend_all_repos(@, repo_json, t.ignore, only_forced)])

AutoDetectBranch(t, self, fetched, only_forced) ==
    IF fetched.ok THEN AutoDetectFetched(t, self, unwrap(fetched.val), only_forced)
    ELSE AutoDetectFetchFailed(t, self, unwrap(fetched.err))

\* Fault injection: explicit CVMFS handled by the code of AutoDetect.
CVMFSBranch_as_autodetect(t, self, fetched, only_forced) ==
    AutoDetectBranch(t, self, fetched, only_forced)

\* CVMFS: any error fails; the metadata conversion, then the role check.
CVMFSBranch(t, self, fetched, only_forced) ==
    IF ~fetched.ok THEN Return(t, to_failed_server(self, unwrap(fetched.err)))
    ELSE LET repo_json == unwrap(fetched.val)
             meta == MetadataFromRepoJSON_try_from(repo_json)
             valid == validate_repo_json_and_server_type(self, repo_json)
         IN  IF ~meta.ok THEN Return(t, to_failed_server(self, unwrap(meta.err)))
             ELSE IF ~valid.ok THEN Return(t, to_failed_server(self, unwrap(valid.err)))
             ELSE ForAllRepos([t EXCEPT
                      !.metadata = unwrap(meta.val),
                      !.all_repos = extend_all_repos(@, repo_json, t.ignore, only_forced)])

\* Err(error) => return ScrapedServer::Failed(self.to_failed_server(error))
RepoScrapeFailed(t, self, error) == Return(t, to_failed_server(self, error))

\* Fault injection: a repository whose status fetch failed is left out and the
\* loop goes on.
RepoStatusFetched_goes_on(t, self, fetched) ==
    IF ~fetched.ok THEN NextRepository([t EXCEPT !.todo = Tail(@)])
    ELSE Await([t EXCEPT !.repo_status = fetched.val],
               ManifestRequest(Head(t.todo)), "manifest")

\* RepositoryOrReplica::scrape, after the status fetch: `?` returns the error,
\* which Server::scrape turns into Failed; else the manifest is fetched.
RepoStatusFetched(t, self, fetched) ==
    IF ~fetched.ok THEN RepoScrapeFailed(t, self, unwrap(fetched.err))
    ELSE Await([t EXCEPT !.repo_status = fetched.val],
               ManifestRequest(Head(t.todo)), "manifest")

\* Fault injection: the populated repository is named after field N of its
\* manifest ("dev" is the manifest's name of dev.eessi.io).
RepoManifestFetched_named_by_manifest(t, self, fetched) ==
    IF is_panic(fetched) THEN Unwind(t)
    ELSE IF ~fetched.ok THEN RepoScrapeFailed(t, self, unwrap(fetched.err))
    ELSE LET populated_repo ==
                 [name |-> IF unwrap(fetched.val).n = << "d", "e", "v" >>
                           THEN "dev.eessi.io" ELSE Head(t.todo),
                  manifest |-> unwrap(fetched.val),
                  last_snapshot |-> unwrap(t.repo_status).last_snapshot,
                  last_gc |-> unwrap(t.repo_status).last_gc]
         IN  NextRepository([t EXCEPT !.populated_repos = Append(@, populated_repo),
                                      !.repo_status = None,
                                      !.todo = Tail(@)])

\* RepositoryOrReplica::scrape, after the manifest fetch, and the body of the
\* for loop behind it.
RepoManifestFetched(t, self, fetched) ==
    IF is_panic(fetched) THEN Unwind(t)
    ELSE IF ~fetched.ok THEN RepoScrapeFailed(t, self, unwrap(fetched.err))
    ELSE LET populated_repo ==
                 [name |-> Head(t.todo), manifest |-> unwrap(fetched.val),
                  last_snapshot |-> unwrap(t.repo_status).last_snapshot,
                  last_gc |-> unwrap(t.repo_status).last_gc]
         IN  NextRepository([t EXCEPT !.populated_repos = Append(@, populated_repo),
                                      !.repo_status = None,
                                      !.todo = Tail(@)])

\* ServerMetadata::from(meta), or the metadata without contact fields.
ServerMetadata_from(meta_json) ==
    IF is_some(meta_json)
    THEN [schema_version |-> None, cvmfs_version |-> None, last_geodb_update |-> None,
          os_version_id |-> None, os_pretty_name |-> None, os_id |-> None,
          administrator |-> Some(unwrap(meta_json).administrator),
          email |-> Some(unwrap(meta_json).email),
          organisation |-> Some(unwrap(meta_json).organisation),
          custom |-> Some(unwrap(meta_json).custom)]
    ELSE [schema_version |-> None, cvmfs_version |-> None, last_geodb_update |-> None,
          os_version_id |-> None, os_pretty_name |-> None, os_id |-> None,
          administrator |-> None, email |-> None, organisation |-> None,
          custom |-> None]

\* ServerMetadata::merge_repo_metadata
merge_repo_metadata(server_metadata, repo_meta) ==
    [server_metadata EXCEPT
       !.schema_version = repo_meta.schema_version,
       !.cvmfs_version = repo_meta.cvmfs_version,
       !.last_geodb_update = repo_meta.last_geodb_update,
       !.os_version_id = repo_meta.os_version_id,
       !.os_pretty_name = repo_meta.os_pretty_name,
       !.os_id = repo_meta.os_id]

\* Fault injection: the overlay starts from a record without contact fields.
merge_metadata_drops_contact(repo_meta, meta_json) ==
    merge_repo_metadata(ServerMetadata_from(None), repo_meta)
\* Fault injection: the self-description is not overlaid.
merge_metadata_no_overlay(repo_meta, meta_json) == ServerMetadata_from(meta_json)

merge_metadata(repo_meta, meta_json) ==
    merge_repo_metadata(ServerMetadata_from(meta_json), repo_meta)

\* Fault injection: the probe is not skipped for a backend detected as S3.
AfterMetaJson_probes_s3(t, self, meta_json, random_string) ==
    LET metadata == merge_metadata(t.metadata, meta_json)
        empty == GeoapiServerQuery(self, t.geoapi_servers, << >>)
    IN  IF Len(t.populated_repos) > 0 /\ self.server_type # "Stratum0"
        THEN Await([t EXCEPT !.server_metadata = Some(metadata)],
                   GeoapiRequest(t.populated_repos[1].name, random_string,
                                      t.geoapi_servers), "geoapi")
        ELSE Return(t, PopulatedServer(self, t, metadata, empty))

\* The merge, then the GeoAPI probe or its skipping.
AfterMetaJson(t, self, meta_json, random_string) ==
    LET metadata == merge_metadata(t.metadata, meta_json)
        empty == GeoapiServerQuery(self, t.geoapi_servers, << >>)
    IN  IF Len(t.populated_repos) > 0 /\ self.server_type # "Stratum0"
        THEN IF t.backend_detected = "S3"
             THEN Return(t, PopulatedServer(self, t, metadata, empty))
             ELSE Await([t EXCEPT !.server_metadata = Some(metadata)],
                        GeoapiRequest(t.populated_repos[1].name, random_string,
                                      t.geoapi_servers), "geoapi")
        ELSE Return(t, PopulatedServer(self, t, metadata, empty))

\* Fault injection: a failed meta.json fetch fails the scrape.
MetaJsonFetched_fatal(t, self, fetched, random_string) ==
    IF ~fetched.ok THEN Return(t, to_failed_server(self, unwrap(fetched.err)))
    ELSE AfterMetaJson(t, self, fetched.val, random_string)

\* After the meta.json fetch: Ok(meta) => Some(meta), Err(_) => None.
MetaJsonFetched(t, self, fetched, random_string) ==
    AfterMetaJson(t, self, IF fetched.ok THEN fetched.val ELSE None, random_string)

\* response.trim().split(',').map(parse::<u32>).collect::<Result<Vec<u32>, _>>()
parse_geoapi_response(text) ==
    LET tokens == split(trim(text), ",")
        bad == {k \in 1..Len(tokens) : ~parse_u32(tokens[k]).ok}
    IN  IF bad # {}
        THEN Err(ScrapeError("GeoAPIFailure",
                             parse_u32(tokens[CHOOSE k \in bad : \A j \in bad : k <= j]).err))
        ELSE Ok([k \in 1..Len(tokens) |-> unwrap(parse_u32(tokens[k]).val)])

LastRequest(t) == t.sent[Len(t.sent)]

\* Fault injection: a probe that failed is taken for a probe without indices.
GeoapiFetched_swallows_failure(t, self, fetched) ==
    LET response == IF fetched.ok THEN parse_geoapi_response(unwrap(fetched.val))
                    ELSE Err(ScrapeError("GeoAPIFailure",
                                         << self.hostname, self.backend_type,
                                            LastRequest(t).token >>))
    IN  Return(t, PopulatedServer(self, t, unwrap(t.server_metadata),
                  GeoapiServerQuery(self, t.geoapi_servers,
                                    IF response.ok THEN unwrap(response.val) ELSE << >>)))

\* fetch_geoapi after its fetch, and the end of Server::scrape.
GeoapiFetched(t, self, fetched) ==
    LET response == IF fetched.ok THEN parse_geoapi_response(unwrap(fetched.val))
                    ELSE Err(ScrapeError("GeoAPIFailure",
                                         << self.hostname, self.backend_type,
                                            LastRequest(t).token >>))
    IN  IF ~response.ok THEN Return(t, to_failed_server(self, unwrap(response.err)))
        ELSE Return(t, PopulatedServer(self, t, unwrap(t.server_metadata),
                        GeoapiServerQuery(self, t.geoapi_servers, unwrap(response.val))))

(***************************************************************************)
(* GeoapiServerQuery: the checks of a response against an expected order.  *)
(***************************************************************************)
\* Vec::contains
contains(v, x) == \E k \in 1..Len(v) : v[k] = x

\* Fault injection: the response is compared as an unordered collection.
check_by_id_any_order(self, expected_order) ==
    /\ Len(self.response) = Len(expected_order)
    /\ Range(self.response) = Range(expected_order)

check_against_expected_order_by_id(self, expected_order) ==
    IF self.response # expected_order THEN FALSE ELSE TRUE

\* self.geoapi_hosts[*x as usize]: an index beyond the list panics.
map_order_to_geoapi_hostname(self, order) ==
    IF \E k \in 1..Len(order) : order[k] >= Len(self.geoapi_hosts) THEN Panic
    ELSE Ok([k \in 1..Len(order) |-> self.geoapi_hosts[order[k] + 1]])

\* Fault injection: the response is resolved whatever its length.
map_response_order_unchecked(self) == map_order_to_geoapi_hostname(self, self.response)

map_response_order_to_geoapi_hostnames(self) ==
    IF Len(self.response) # Len(self.geoapi_hosts)
    THEN Err(ScrapeError("GeoAPIFailure",
                         << self.hostname, Len(self.geoapi_hosts), Len(self.response) >>))
    ELSE map_order_to_geoapi_hostname(self, self.response)

\* Fault injection: the hosts are not compared before the response is resolved.
check_by_hostname_resolves_first(self, expected_order) ==
    LET response_order == map_response_order_to_geoapi_hostnames(self)
    IN  IF ~response_order.ok THEN response_order
        ELSE Ok(unwrap(response_order.val) = expected_order)

check_against_expected_order_by_hostname(self, expected_order) ==
    LET geoapi_hosts_not_checked ==
            SelectSeq(self.geoapi_hosts, LAMBDA x : ~contains(expected_order, x))
        target_hosts_not_in_geoapi_response ==
            SelectSeq(expected_order, LAMBDA x : ~contains(self.geoapi_hosts, x))
    IN  IF geoapi_hosts_not_checked # << >> \/ target_hosts_not_in_geoapi_response # << >>
        THEN Ok(FALSE)
        ELSE LET response_order == map_response_order_to_geoapi_hostnames(self)
             IN  IF ~response_order.ok THEN response_order
                 ELSE Ok(unwrap(response_order.val) = expected_order)

(***************************************************************************)
(* The builder and the batch driver.                                       *)
(***************************************************************************)
\* Scraper::new() holds the default hosts until geoapi_servers() replaces them.
Scraper_geoapi_servers(given) == IF given = None THEN DEFAULT_GEOAPI_SERVERS ELSE unwrap(given)

\* Scraper::validate(): Err exactly when a server uses S3 and nothing is forced.
validate(svs, forced_repos) ==
    IF (\E k \in 1..Len(svs) : svs[k].backend_type = "S3") /\ forced_repos = << >>
    THEN Err(ScrapeError("EmptyRepositoryList", << "Forced repositories list cannot be empty" >>))
    ELSE Ok("ValidatedAndReady")

\* scrape_servers: the default hosts replace an empty list.
scrape_servers_geoapi(geoapi) == IF geoapi = << >> THEN DEFAULT_GEOAPI_SERVERS ELSE geoapi

\* The arguments of Server::scrape.
ScrapeArgs ==
    [repositories |-> repositories,
     ignored_repositories |-> ignored_repositories,
     geoapi_servers |->
         IF entry = "direct" THEN geoapi_hosts
         ELSE Some(scrape_servers_geoapi(Scraper_geoapi_servers(geoapi_hosts)))]

\* join_all: ready when every future is done; the outputs in the order of the futures.
join_all_ready(tasks) == \A k \in DOMAIN tasks : tasks[k].pc = "done"
\* Fault injection: the outputs in the order of completion.
join_all_completion_order(tasks, order) == [k \in DOMAIN tasks |-> unwrap(tasks[order[k]].out)]
join_all_output(tasks, order) == [k \in DOMAIN tasks |-> unwrap(tasks[k].out)]

(***************************************************************************)
(* Initial states.                                                         *)
(***************************************************************************)
InitRun ==
    /\ phase = IF entry = "direct" THEN "direct" ELSE "with_servers"
    /\ task = [k \in 1..Len(servers) |-> NewTask]
    /\ finish_order = << >>
    /\ results = None
    /\ receiver = Nothing
    /\ call = None

\* One server, every role and backend, any answer of the host.
Init ==
    /\ entry \in {"direct", "builder"}
    /\ servers \in {<< Server(st, bt, Hostnames[1]) >> : st \in ServerType, bt \in ServerBackendType}
    /\ repositories \in SeqsUpTo(ForcedNames, MaxForced)
    /\ ignored_repositories \in SeqsUpTo(IgnoredNames, MaxIgnored)
    /\ only_scrape_forced_repos \in BOOLEAN
    /\ geoapi_hosts \in GeoapiInputs(entry)
    /\ env = FullEnv
    /\ InitRun

\* One server that is given no list of GeoAPI hosts.
InitFetch ==
    /\ entry \in {"direct", "builder"}
    /\ servers \in {<< Server(st, bt, Hostnames[1]) >> : st \in ServerType, bt \in ServerBackendType}
    /\ repositories \in SeqsUpTo(ForcedNames, MaxForced)
    /\ ignored_repositories \in SeqsUpTo(IgnoredNames, MaxIgnored)
    /\ only_scrape_forced_repos \in BOOLEAN
    /\ geoapi_hosts = None
    /\ env = FullEnv
    /\ InitRun

\* A batch: the three servers of the crate's examples, in any combination.
BatchServers ==
    { << "Stratum1", "CVMFS" >>, << "Stratum1", "AutoDetect" >>, << "SyncServer", "S3" >> }
InitBatch ==
    /\ entry = "builder"
    /\ servers \in {[k \in 1..NServers |-> Server(id[k][1], id[k][2], Hostnames[k])] :
                      id \in [1..NServers -> BatchServers]}
    /\ repositories \in {<< >>, << "dev.eessi.io" >>}
    /\ ignored_repositories = << >>
    /\ only_scrape_forced_repos = FALSE
    /\ geoapi_hosts = None
    /\ env = BatchEnv
    /\ InitRun

(***************************************************************************)
(* Actions.                                                                *)
(***************************************************************************)
\* Scraper::validate()
Validate ==
    /\ phase = "with_servers"
    /\ phase' = IF validate(servers, repositories).ok THEN "ready" ELSE "invalid"
    /\ UNCHANGED << config, library, task, finish_order, results >>

\* Scraper::scrape() and scrape_servers, up to `join_all(futures).await`.
ScraperScrape ==
    /\ phase = "ready"
    /\ phase' = "scraping"
    /\ UNCHANGED << config, library, task, finish_order, results >>

Polled == phase \in {"scraping", "direct"}

\* Task i ran from one suspension point to the next, or to its end.
Resume(i, t) ==
    /\ task' = [task EXCEPT ![i] = t]
    /\ finish_order' = IF t.pc = "done" THEN Append(finish_order, i) ELSE finish_order
    /\ phase' = IF t.pc = "panicked" THEN "panicked" ELSE phase
    /\ UNCHANGED << config, library, results >>

Recv(t, resp) == [t EXCEPT !.recv = Append(@, resp)]
\* utilities::generate_random_string(12): any of the strings of the environment.
generate_random_string == env.random_strings

\* The first poll of the future of servers[i].scrape(...).
ServerScrape(i) ==
    /\ Polled
    /\ task[i].pc = "created"
    /\ Resume(i, scrape_start(task[i], servers[i], ScrapeArgs))


OnReposJson(i) ==
    /\ Polled
    /\ task[i].pc = "repos_json"
    /\ \E resp \in JsonResponses(env.repos_json) :
         LET t == Recv(task[i], resp)
             fetched == fetch_json(servers[i], LastRequest(t), resp)
         IN  Resume(i, IF servers[i].backend_type = "AutoDetect"
                       THEN AutoDetectBranch(t, servers[i], fetched, only_scrape_forced_repos)
                       ELSE CVMFSBranch(t, servers[i], fetched, only_scrape_forced_repos))

OnStatusJson(i) ==
    /\ Polled
    /\ task[i].pc = "status"
    /\ \E resp \in JsonResponses({StatusJSON}) :
         LET t == Recv(task[i], resp)
         IN  Resume(i, RepoStatusFetched(t, servers[i],
                                         fetch_json(servers[i], LastRequest(t), resp)))

OnManifest(i) ==
    /\ Polled
    /\ task[i].pc = "manifest"
    /\ \E resp \in TextResponses(env.manifests) :
         LET t == Recv(task[i], resp)
         IN  Resume(i, RepoManifestFetched(t, servers[i],
                           fetch_repository_manifest(servers[i], LastRequest(t), resp)))

OnMetaJson(i) ==
    /\ Polled
    /\ task[i].pc = "meta_json"
    /\ \E resp \in JsonResponses({MetaJSON}), random_string \in generate_random_string :
         LET t == Recv(task[i], resp)
         IN  Resume(i, MetaJsonFetched(t, servers[i],
                                       fetch_json(servers[i], LastRequest(t), resp),
                                       random_string))

OnGeoapi(i) ==
    /\ Polled
    /\ task[i].pc = "geoapi"
    /\ \E resp \in TextResponses(env.geo) :
         LET t == Recv(task[i], resp)
         IN  Resume(i, GeoapiFetched(t, servers[i],
                                     fetch_text(servers[i], LastRequest(t), resp)))

\* join_all(futures).await completes and scrape_servers returns.
JoinAll ==
    /\ phase = "scraping"
    /\ join_all_ready(task)
    /\ results' = Some(join_all_output(task, finish_order))
    /\ phase' = "returned"
    /\ UNCHANGED << config, library, task, finish_order >>

Next ==
    \/ Validate
    \/ ScraperScrape
    \/ \E i \in Tasks : ServerScrape(i)
    \/ \E i \in Tasks : OnReposJson(i)
    \/ \E i \in Tasks : OnStatusJson(i)
    \/ \E i \in Tasks : OnManifest(i)
    \/ \E i \in Tasks : OnMetaJson(i)
    \/ \E i \in Tasks : OnGeoapi(i)
    \/ JoinAll

Spec == Init /\ [][Next]_vars
FetchSpec == InitFetch /\ [][Next]_vars
BatchSpec == InitBatch /\ [][Next]_vars

(***************************************************************************)
(* Calls of the library on a value the caller holds: the checks of a       *)
(* GeoapiServerQuery and the parse of a manifest.                          *)
(***************************************************************************)
MaxHosts == 2
MaxSigLines == 2

\* The queries: candidate lists and responses of up to MaxHosts entries; an
\* index may lie beyond the list.
CandidateHosts == {DEFAULT_GEOAPI_SERVERS[k] : k \in 1..MaxHosts}
HostOrders == SeqsUpTo(CandidateHosts, MaxHosts)
IndexOrders == SeqsUpTo(0..MaxHosts, MaxHosts)
GeoapiQueries ==
    {GeoapiServerQuery(Server("Stratum1", "CVMFS", Hostnames[1]), hosts, response) :
        hosts \in HostOrders, response \in IndexOrders}

\* The text of a manifest: the lines of its fields, the "--" line, the lines
\* after it.
ManifestTags == FieldOrder \o << "L" >>
GoodFields ==
    [C |-> << "A", "b" >>, B |-> << "4", "2" >>, A |-> << "n", "o" >>, R |-> << "d", "4" >>,
     X |-> << >>, G |-> << "Y", "e", "s" >>, H |-> << "0", "f" >>, T |-> << "1", "7" >>,
     D |-> << "2", "4", "0" >>, S |-> << "7" >>, N |-> << "d", "e", "v" >>,
     M |-> << "1", "2" >>, Y |-> << "e", "e" >>, L |-> << "x" >>]
Without(fields, tag) == [x \in (DOMAIN fields) \ {tag} |-> fields[x]]
RECURSIVE FieldLines(_, _)
FieldLines(fields, tags) ==
    IF tags = << >> THEN << >>
    ELSE (IF Head(tags) \in DOMAIN fields
          THEN ManifestLine(<< Head(tags) >> \o fields[Head(tags)])
          ELSE << >>)
         \o FieldLines(fields, Tail(tags))
RECURSIVE JoinLines(_)
JoinLines(ls) ==
    IF ls = << >> THEN << >>
    ELSE IF Len(ls) = 1 THEN Head(ls)
    ELSE ManifestLine(Head(ls)) \o JoinLines(Tail(ls))
ManifestText(fields, signature_lines) ==
    FieldLines(fields, ManifestTags) \o ManifestLine(<< "-", "-" >>) \o JoinLines(signature_lines)

\* One line is missing.
TextsWithoutOneField ==
    {ManifestText(Without(GoodFields, tag), << << "s", "i", "g" >> >>) : tag \in Range(ManifestTags)}
\* One hash or number has a value that may be malformed.
FieldValues ==
    { << "z", "z" >>, << "a", "b", "c" >>, << "4", "x" >>, << "-" >>, << >>,
      << "2", "1", "4", "7", "4", "8", "3", "6", "4", "8" >>, << "-", "5" >>, << "A", "F" >> }
TextsWithOneValue ==
    {ManifestText([GoodFields EXCEPT ![tag] = v], << << "s", "i", "g" >> >>) :
        tag \in {"C", "R", "X", "H", "M", "Y", "D", "S"}, v \in FieldValues}
    \cup {ManifestText([GoodFields EXCEPT ![tag] = v], << << "s", "i", "g" >> >>) :
        tag \in {"B", "T"}, v \in FieldValues \ {<< "2", "1", "4", "7", "4", "8", "3", "6", "4", "8" >>}}
\* The tag of a line is in lower case.
TextWithLowerCaseTag ==
    ManifestLine(<< "c", "A", "b" >>) \o ManifestText(Without(GoodFields, "C"), << << "s", "i", "g" >> >>)
\* Any lines after the "--" line.
SignatureLines == { << "s", "i", "g" >>, << "B", "9" >>, << >>, << "-", "-" >> }
TextsWithSignature ==
    {ManifestText(GoodFields, ls) : ls \in SeqsUpTo(SignatureLines, MaxSigLines)}

\* Manifest records, and the text that a publisher writes for a record: one
\* line per field, the "--" line, the signature.
Signatures == { << >>, << "s", "i", "g" >>, << "B", "9" >>, << "-", "-" >> }
ManifestRecords ==
    {[c |-> << "a", "b" >>, b |-> b, a |-> a, r |-> << "d", "4" >>, x |-> << >>, g |-> TRUE,
      h |-> << "0", "f" >>, t |-> 17, d |-> 240, s |-> 7, n |-> << "d", "e", "v" >>,
      m |-> << "1", "2" >>, y |-> << "e", "e" >>, l |-> l, signature |-> signature] :
        b \in {0, 42, 0 - 5}, a \in BOOLEAN, l \in {<< >>, << "x" >>}, signature \in Signatures}
RECURSIVE digits_of(_)
digits_of(n) == IF n < 10 THEN << Digits[n + 1] >> ELSE digits_of(n \div 10) \o << Digits[(n % 10) + 1] >>
to_string(n) == IF n < 0 THEN << "-" >> \o digits_of(0 - n) ELSE digits_of(n)
yes_no(flag) == IF flag THEN << "y", "e", "s" >> ELSE << "n", "o" >>
encode(m) ==
    ManifestText([C |-> m.c, B |-> to_string(m.b), A |-> yes_no(m.a), R |-> m.r, X |-> m.x,
                  G |-> yes_no(m.g), H |-> m.h, T |-> to_string(m.t), D |-> to_string(m.d),
                  S |-> to_string(m.s), N |-> m.n, M |-> m.m, Y |-> m.y, L |-> m.l],
                 << m.signature >>)
EncodedManifest == [m \in ManifestRecords |-> encode(m)]

\* A tag is on two lines, with another value on the first.
TextsWithDuplicateTag ==
    {ManifestLine(<< "B", "9" >>) \o GoodManifestText,
     ManifestLine(<< "N", "x" >>) \o GoodManifestText}

ManifestContents ==
    AllManifestTexts \cup TextsWithoutOneField \cup TextsWithOneValue
        \cup {TextWithLowerCaseTag} \cup TextsWithSignature \cup TextsWithDuplicateTag
        \cup {EncodedManifest[m] : m \in ManifestRecords}

Held(kind, values) == {[kind |-> kind, val |-> v] : v \in values}

\* No server is scraped: the caller holds a query or the text of a manifest.
InitLibrary ==
    /\ entry = "library"
    /\ servers = << >>
    /\ repositories = << >>
    /\ ignored_repositories = << >>
    /\ only_scrape_forced_repos = FALSE
    /\ geoapi_hosts = None
    /\ env = BatchEnv
    /\ phase = "library"
    /\ task = << >>
    /\ finish_order = << >>
    /\ results = None
    /\ \/ receiver \in Held("GeoapiServerQuery", GeoapiQueries)
       \/ receiver \in Held("content", ManifestContents)
    /\ call = None

Called(fn, arg, ret) ==
    /\ call = None
    /\ call' = Some([fn |-> fn, arg |-> arg, ret |-> ret])
    /\ UNCHANGED << config, phase, task, finish_order, results, receiver >>

\* query.check_against_expected_order_by_id(expected_order)
CheckByID ==
    /\ receiver.kind = "GeoapiServerQuery"
    /\ \E expected_order \in IndexOrders :
           Called("check_against_expected_order_by_id", expected_order,
                  check_against_expected_order_by_id(receiver.val, expected_order))

\* query.check_against_expected_order_by_hostname(expected_order)
CheckByHostname ==
    /\ receiver.kind = "GeoapiServerQuery"
    /\ \E expected_order \in HostOrders :
           Called("check_against_expected_order_by_hostname", expected_order,
                  check_against_expected_order_by_hostname(receiver.val, expected_order))

\* query.map_response_order_to_geoapi_hostnames()
MapResponseOrder ==
    /\ receiver.kind = "GeoapiServerQuery"
    /\ Called("map_response_order_to_geoapi_hostnames", << >>,
              map_response_order_to_geoapi_hostnames(receiver.val))

\* content.parse::<Manifest>()
ManifestFromStr ==
    /\ receiver.kind = "content"
    /\ Called("from_str", << >>, Manifest_from_str(receiver.val))

NextLibrary ==
    \/ CheckByID
    \/ CheckByHostname
    \/ MapResponseOrder
    \/ ManifestFromStr

LibrarySpec == InitLibrary /\ [][NextLibrary]_vars

(***************************************************************************)
(* Vocabulary of the properties.                                           *)
(***************************************************************************)
Ended(i) == task[i].pc \in {"done", "panicked"}
HasOutcome(i) == task[i].out # None
Out(i) == unwrap(task[i].out)
IsPopulated(i) == HasOutcome(i) /\ Out(i).tag = "Populated"
IsFailed(i) == HasOutcome(i) /\ Out(i).tag = "Failed"
NamesOf(repos) == [k \in 1..Len(repos) |-> repos[k].name]
ForcedNotIgnored == Range(repositories) \ Range(ignored_repositories)
\* The requests of task i that were answered.
Answered(i) == 1..Len(task[i].recv)
IsRepoRequest(req) == req.endpoint \in {".cvmfs_status.json", ".cvmfspublished"}
\* What the fetch of answered request k of task i returned.
\* (the manifests a host may serve are parsed once)
ParsedManifest == [text \in AllManifestTexts |-> Manifest_from_str(text)]
RepoFetchResult(i, k) ==
    IF task[i].sent[k].endpoint = ".cvmfs_status.json"
    THEN fetch_json(servers[i], task[i].sent[k], task[i].recv[k])
    ELSE IF task[i].recv[k].net # "ok"
    THEN fetch_repository_manifest(servers[i], task[i].sent[k], task[i].recv[k])
    ELSE ParsedManifest[unwrap(task[i].recv[k].val)]
RepoFetchFailed(i, k) == IsRepoRequest(task[i].sent[k]) /\ ~RepoFetchResult(i, k).ok
\* Repository name n was scraped by task i: its status and its manifest were fetched.
RepoScraped(i, n) ==
    \A e \in {".cvmfs_status.json", ".cvmfspublished"} :
        \E k \in Answered(i) :
            /\ task[i].sent[k].endpoint = e
            /\ task[i].sent[k].repo = n
            /\ RepoFetchResult(i, k).ok
BatchEnded == phase \in {"returned", "panicked"}

(***************************************************************************)
(* C1.  All-or-nothing per server: a failed repository scrape makes the    *)
(* outcome Failed with that repository's error and without repositories; a *)
(* Populated outcome holds every repository of the resolved set, scraped   *)
(* successfully; a scrape that ended produced exactly one of Populated and *)
(* Failed.                                                                 *)
(***************************************************************************)
C1_AllOrNothing ==
    \A i \in Tasks :
        /\ \A k \in Answered(i) :
               RepoFetchFailed(i, k) =>
                   /\ IsFailed(i)
                   /\ Out(i).error = unwrap(RepoFetchResult(i, k).err)
                   /\ "repositories" \notin DOMAIN Out(i)
        /\ IsPopulated(i) =>
               /\ NamesOf(Out(i).repositories) = BTreeSetIter(task[i].all_repos)
               /\ \A n \in task[i].all_repos : RepoScraped(i, n)
        /\ Ended(i) => HasOutcome(i) /\ Out(i).tag \in {"Populated", "Failed"}
        /\ HasOutcome(i) => task[i].pc = "done"

(***************************************************************************)
(* C2.  The batch returns one outcome per input server, the i-th outcome   *)
(* being that of the i-th server, whatever the completion order.           *)
(***************************************************************************)
C2_ResultOrder ==
    phase = "returned" =>
        /\ Len(unwrap(results)) = Len(servers)
        /\ \A i \in Tasks :
               /\ unwrap(results)[i].hostname = servers[i].hostname
               /\ unwrap(results)[i] = Out(i)

\* The batch returned although its last server completed first.
C2_Witness ==
    /\ phase = "returned"
    /\ Len(servers) >= 2
    /\ finish_order[1] = Len(servers)
    /\ \E i \in Tasks : IsFailed(i)
    /\ \E i \in Tasks : IsPopulated(i)

(***************************************************************************)
(* C3.  Isolation: servers of the same role and backend that received the  *)
(* same answers have the same outcome, and once the batch has ended, the   *)
(* outcome of a server that completed is delivered whatever happened to    *)
(* the scrape of another server.                                           *)
(***************************************************************************)
SameAnswers(x, y) ==
    /\ servers[x].server_type = servers[y].server_type
    /\ servers[x].backend_type = servers[y].backend_type
    /\ task[x].sent = task[y].sent
    /\ task[x].recv = task[y].recv
SameOutcome(a, b) ==
    /\ a.tag = b.tag
    /\ a.tag = "Failed" => a.error.wrapper = b.error.wrapper /\ a.error.kind = b.error.kind
    /\ a.tag = "Populated" =>
           /\ a.repositories = b.repositories
           /\ a.backend_detected = b.backend_detected
           /\ a.metadata = b.metadata
           /\ a.geoapi.response = b.geoapi.response
C3_Isolation ==
    /\ \A x, y \in Tasks :
           task[x].pc = "done" /\ task[y].pc = "done" /\ SameAnswers(x, y)
               => SameOutcome(Out(x), Out(y))
    /\ \A x, y \in Tasks :
           (x # y /\ BatchEnded /\ task[y].pc = "done" /\ (IsFailed(x) \/ task[x].pc = "panicked"))
               => results # None /\ unwrap(results)[y] = Out(y)

(***************************************************************************)
(* C4.  The batch cannot fail and waits for every server: it does not end  *)
(* by unwinding, and when it has returned every server's scrape is done    *)
(* and every element of the result is Populated or Failed.                 *)
(***************************************************************************)
C4_BatchCannotFail ==
    /\ phase # "panicked"
    /\ phase = "returned" =>
           \A i \in Tasks :
               /\ task[i].pc = "done"
               /\ unwrap(results)[i].tag \in {"Populated", "Failed"}

\* The answer to the repositories.json request of task i, which is its first request.
ReposJsonAnswered(i) ==
    /\ Len(task[i].recv) >= 1
    /\ task[i].sent[1] = ReposJsonRequest
ReposJsonAnswer(i) == task[i].recv[1]
ReposJsonParsed(i) ==
    ReposJsonAnswered(i) /\ ReposJsonAnswer(i).net = "ok" /\ ReposJsonAnswer(i).wellformed
ReposJson(i) == unwrap(ReposJsonAnswer(i).val)
Advertised(json) == {r.name : r \in Range(json.repositories) \cup Range(json.replicas)}
BadVersion(json) ==
    json.cvmfs_version # None /\ unwrap(json.cvmfs_version) \notin ValidSemver
\* The role rule: a Stratum0 lists no replicas, a Stratum1 and a SyncServer list some.
RoleViolated(server_type, json) ==
    \/ server_type = "Stratum0" /\ json.replicas # << >>
    \/ server_type \in {"Stratum1", "SyncServer"} /\ json.replicas = << >>
\* Every request of task i for a repository names a repository of the set.
RepoRequestsWithin(i, names) ==
    \A k \in 1..Len(task[i].sent) :
        IsRepoRequest(task[i].sent[k]) => task[i].sent[k].repo \in names

(***************************************************************************)
(* C5.  AutoDetect, repositories.json failing in transit or with a non-2xx *)
(* status: the scrape goes on, the detected backend is S3, the             *)
(* repositories scraped are the forced names minus the ignored ones, and   *)
(* with none of them the outcome is Populated with zero repositories.      *)
(***************************************************************************)
C5_AutoDetectFallback ==
    \A i \in Tasks :
        (/\ servers[i].backend_type = "AutoDetect"
         /\ ReposJsonAnswered(i)
         /\ ReposJsonAnswer(i).net \in NetFaults)
        =>
        /\ task[i].backend_detected = "S3"
        /\ task[i].all_repos = ForcedNotIgnored
        /\ RepoRequestsWithin(i, ForcedNotIgnored)
        /\ Len(task[i].recv) = 1 => task[i].pc \in {"status", "meta_json"}
        /\ IsFailed(i) =>
               \E k \in Answered(i) :
                   RepoFetchFailed(i, k) /\ Out(i).error = unwrap(RepoFetchResult(i, k).err)
        /\ IsPopulated(i) =>
               /\ Out(i).backend_detected = "S3"
               /\ NamesOf(Out(i).repositories) = BTreeSetIter(ForcedNotIgnored)
        /\ (ForcedNotIgnored = {} /\ Ended(i)) =>
               IsPopulated(i) /\ Out(i).repositories = << >>

\* AutoDetect fell back to S3 and scraped every forced repository that was not ignored.
C5_Witness ==
    \E i \in Tasks :
        /\ servers[i].backend_type = "AutoDetect"
        /\ ReposJsonAnswered(i)
        /\ ReposJsonAnswer(i).net = "http_error"
        /\ Range(ignored_repositories) \cap Range(repositories) # {}
        /\ IsPopulated(i)
        /\ Out(i).backend_detected = "S3"
        /\ Len(Out(i).repositories) = 1

(***************************************************************************)
(* C6.  AutoDetect, repositories.json fetched: a body that does not parse, *)
(* a metadata conversion error or a role mismatch makes the outcome        *)
(* Failed, no repository is fetched, and the backend is not taken for S3;  *)
(* S3 is detected only after a failure in transit or a non-2xx status.     *)
(***************************************************************************)
C6_AutoDetectNoFallback ==
    \A i \in Tasks :
        (servers[i].backend_type = "AutoDetect" /\ ReposJsonAnswered(i))
        =>
        /\ task[i].backend_detected = "S3" => ReposJsonAnswer(i).net \in NetFaults
        /\ (/\ ReposJsonAnswer(i).net = "ok"
            /\ \/ ~ReposJsonAnswer(i).wellformed
               \/ BadVersion(ReposJson(i))
               \/ RoleViolated(servers[i].server_type, ReposJson(i)))
           =>
           /\ IsFailed(i)
           /\ Len(task[i].sent) = 1
           /\ task[i].backend_detected # "S3"
           /\ Out(i).error.kind =
                  IF ~ReposJsonAnswer(i).wellformed THEN "ParseError"
                  ELSE IF RoleViolated(servers[i].server_type, ReposJson(i))
                       THEN "ServerTypeMismatch"
                  ELSE "ConversionError"

\* AutoDetect failed on the cvmfs_version of a self-description of the right role.
C6_Witness ==
    \E i \in Tasks :
        /\ servers[i].backend_type = "AutoDetect"
        /\ ReposJsonParsed(i)
        /\ BadVersion(ReposJson(i))
        /\ ~RoleViolated(servers[i].server_type, ReposJson(i))
        /\ Range(repositories) # {}
        /\ IsFailed(i)
        /\ Out(i).error.kind = "ConversionError"

(***************************************************************************)
(* C7.  Explicit CVMFS: any failure of the repositories.json step makes    *)
(* the outcome Failed; on success the detected backend is CVMFS and the    *)
(* self-description gives the metadata and the repository names.           *)
(***************************************************************************)
ReposJsonStepFails(i) ==
    \/ ReposJsonAnswer(i).net # "ok"
    \/ ~ReposJsonAnswer(i).wellformed
    \/ BadVersion(ReposJson(i))
    \/ RoleViolated(servers[i].server_type, ReposJson(i))
MetadataGiven(metadata, json) ==
    /\ metadata.schema_version = Some(json.schema)
    /\ metadata.cvmfs_version = json.cvmfs_version
    /\ metadata.last_geodb_update = json.last_geodb_update
    /\ metadata.os_id = json.os_id
    /\ metadata.os_version_id = json.os_version_id
    /\ metadata.os_pretty_name = json.os_pretty_name
\* What holds of explicit CVMFS whatever names the self-description gives.
C7_Step(i, names) ==
    IF ReposJsonStepFails(i)
    THEN IsFailed(i) /\ Len(task[i].sent) = 1
    ELSE /\ task[i].backend_detected = "CVMFS"
         /\ MetadataGiven(task[i].metadata, ReposJson(i))
         /\ task[i].all_repos = ForcedNotIgnored \cup names
         /\ IsPopulated(i) =>
                /\ Out(i).backend_detected = "CVMFS"
                /\ MetadataGiven(Out(i).metadata, ReposJson(i))
                /\ NamesOf(Out(i).repositories) = BTreeSetIter(ForcedNotIgnored \cup names)
C8_ExplicitS3 ==
    \A i \in Tasks :
        (servers[i].backend_type = "S3" /\ task[i].pc # "created")
        =>
        IF ForcedNotIgnored = {}
        THEN /\ IsFailed(i)
             /\ Out(i).error.kind = "EmptyRepositoryList"
             /\ task[i].sent = << >>
        ELSE Ended(i) => (IsPopulated(i) <=> \A n \in ForcedNotIgnored : RepoScraped(i, n))

\* Explicit S3 scraped two forced repositories.
C8_Witness ==
    \E i \in Tasks :
        /\ servers[i].backend_type = "S3"
        /\ Cardinality(ForcedNotIgnored) = 2
        /\ IsPopulated(i)
        /\ Len(Out(i).repositories) = 2

IsServerTypeMismatch(i) ==
    /\ IsFailed(i)
    /\ Out(i).error.kind = "ServerTypeMismatch"
    /\ Out(i).error.detail[1] = servers[i].hostname
    /\ Out(i).error.detail[2] = servers[i].server_type
C10_RoleConsistency ==
    \A i \in Tasks :
        ReposJsonParsed(i) =>
            /\ IsServerTypeMismatch(i) <=> RoleViolated(servers[i].server_type, ReposJson(i))
            /\ (IsPopulated(i) /\ Out(i).backend_detected = "CVMFS")
                   => ~RoleViolated(servers[i].server_type, ReposJson(i))

NameSet(repos) == {repos[k].name : k \in 1..Len(repos)}
Ignored == Range(ignored_repositories)
\* repositories.json was fetched, parsed, converted and found of the right role.
ReposJsonValidated(i) == ReposJsonParsed(i) /\ ~ReposJsonStepFails(i)

(***************************************************************************)
(* C11.  In a Populated outcome backend_detected is S3 or CVMFS, never     *)
(* AutoDetect, and equals the configured backend unless that was           *)
(* AutoDetect; backend_type reports the configured backend.                *)
(***************************************************************************)
C11_BackendDetected ==
    \A i \in Tasks :
        /\ HasOutcome(i) => Out(i).backend_type = servers[i].backend_type
        /\ IsPopulated(i) =>
               /\ Out(i).backend_detected \in {"S3", "CVMFS"}
               /\ servers[i].backend_type # "AutoDetect"
                      => Out(i).backend_detected = servers[i].backend_type

\* An AutoDetect server was scraped and detected as CVMFS.
C11_Witness ==
    \E i \in Tasks :
        /\ servers[i].backend_type = "AutoDetect"
        /\ IsPopulated(i)
        /\ Out(i).backend_type = "AutoDetect"
        /\ Out(i).backend_detected = "CVMFS"

C14_ForcedOverridesIgnored ==
    only_scrape_forced_repos =>
        \A i \in Tasks :
            /\ task[i].pc # "created" => task[i].all_repos = Range(repositories)
            /\ IsPopulated(i) => NameSet(Out(i).repositories) = Range(repositories)

(***************************************************************************)
(* C15.  With the only-forced flag unset and repositories.json fetched and *)
(* validated, the resolved set is the forced names, the names of           *)
(* repositories and the names of replicas, minus the ignored names, each   *)
(* name once; with no forced name the advertised names alone are scraped.  *)
(***************************************************************************)
C15_Merged(i) == (Range(repositories) \cup Advertised(ReposJson(i))) \ Ignored
C15_MergedSet ==
    ~only_scrape_forced_repos =>
        \A i \in Tasks :
            ReposJsonValidated(i) =>
                /\ task[i].all_repos = C15_Merged(i)
                /\ RepoRequestsWithin(i, C15_Merged(i))
                /\ IsPopulated(i) =>
                       /\ NameSet(Out(i).repositories) = C15_Merged(i)
                       /\ Len(Out(i).repositories) = Cardinality(C15_Merged(i))

\* Nothing forced: the names of repositories and replicas, one of them in both.
C15_Witness ==
    /\ ~only_scrape_forced_repos
    /\ repositories = << >>
    /\ \E i \in Tasks :
           /\ ReposJsonValidated(i)
           /\ ReposJson(i).repositories # << >>
           /\ ReposJson(i).replicas # << >>
           /\ Len(repositories_and_replicas(ReposJson(i))) = 3
           /\ IsPopulated(i)
           /\ Len(Out(i).repositories) = 2

\* The answered meta.json request of task i.
MetaJsonAnswered(i) == \E k \in Answered(i) : task[i].sent[k] = MetaJsonRequest
MetaJsonIndex(i) == CHOOSE k \in Answered(i) : task[i].sent[k] = MetaJsonRequest
MetaJsonAnswer(i) == task[i].recv[MetaJsonIndex(i)]
MetaJsonFailed(i) == MetaJsonAnswer(i).net # "ok" \/ ~MetaJsonAnswer(i).wellformed
GeoRequests(i) == {k \in 1..Len(task[i].sent) : task[i].sent[k].endpoint = "api/v1.0/geo"}
\* The cases in which the GeoAPI probe is skipped.
GeoSkipped(i) ==
    \/ servers[i].server_type = "Stratum0"
    \/ task[i].all_repos = {}
    \/ task[i].backend_detected = "S3"
ContactAbsent(metadata) ==
    /\ metadata.administrator = None
    /\ metadata.email = None
    /\ metadata.organisation = None
    /\ metadata.custom = None
SelfDescriptionAbsent(metadata) ==
    /\ metadata.schema_version = None
    /\ metadata.cvmfs_version = None
    /\ metadata.last_geodb_update = None
    /\ metadata.os_version_id = None
    /\ metadata.os_pretty_name = None
    /\ metadata.os_id = None

(***************************************************************************)
(* C16.  One server's repositories are fetched one at a time in ascending  *)
(* name order, with at most one request of the server in flight, and the   *)
(* repositories of a Populated outcome are in strictly ascending name      *)
(* order whatever the order and duplication of the names given.            *)
(***************************************************************************)
C16_NameOrder ==
    \A i \in Tasks :
        LET sent == task[i].sent
            Status == {k \in 1..Len(sent) : sent[k].endpoint = ".cvmfs_status.json"}
            Manifests == {k \in 1..Len(sent) : sent[k].endpoint = ".cvmfspublished"}
        IN  /\ Len(task[i].recv) <= Len(sent)
            /\ Len(sent) <= Len(task[i].recv) + 1
            /\ Len(sent) = Len(task[i].recv) + 1
                   <=> task[i].pc \in {"repos_json", "status", "manifest", "meta_json", "geoapi"}
            /\ \A k, l \in Status : k < l => Rank(sent[k].repo) < Rank(sent[l].repo)
            /\ \A k \in Manifests : k - 1 \in Status /\ sent[k - 1].repo = sent[k].repo
            /\ \A k \in Status :
                   k < Len(sent) => sent[k + 1] = ManifestRequest(sent[k].repo)
            /\ IsPopulated(i) =>
                   \A a, b \in 1..Len(Out(i).repositories) :
                       a < b => Rank(Out(i).repositories[a].name)
                                    < Rank(Out(i).repositories[b].name)

\* Two names forced in descending order were scraped in ascending order.
C16_Witness ==
    /\ repositories = << "riscv.eessi.io", "dev.eessi.io" >>
    /\ \E i \in Tasks :
           /\ IsPopulated(i)
           /\ NamesOf(Out(i).repositories) = << "dev.eessi.io", "riscv.eessi.io" >>
           /\ task[i].sent[1] = StatusRequest("dev.eessi.io")

(***************************************************************************)
(* C17.  The meta.json fetch is never fatal: after its answer the scrape   *)
(* ends Populated or goes on to the GeoAPI probe as it would after a       *)
(* successful fetch, a Failed outcome comes from the probe only, and       *)
(* after a failed fetch the metadata has no contact fields.                *)
(***************************************************************************)
C17_MetaJsonNotFatal ==
    \A i \in Tasks :
        MetaJsonAnswered(i) =>
            /\ Len(task[i].recv) = MetaJsonIndex(i) =>
                   IF GeoSkipped(i) THEN IsPopulated(i) ELSE task[i].pc = "geoapi"
            /\ IsFailed(i) =>
                   /\ Len(task[i].recv) = MetaJsonIndex(i) + 1
                   /\ MetaJsonIndex(i) + 1 \in GeoRequests(i)
                   /\ Out(i).error.kind = "GeoAPIFailure"
            /\ (MetaJsonFailed(i) /\ IsPopulated(i)) => ContactAbsent(Out(i).metadata)

\* meta.json did not parse, the probe was made and the outcome is Populated.
C17_Witness ==
    \E i \in Tasks :
        /\ MetaJsonAnswered(i)
        /\ MetaJsonAnswer(i).net = "ok"
        /\ ~MetaJsonAnswer(i).wellformed
        /\ GeoRequests(i) # {}
        /\ IsPopulated(i)
        /\ Out(i).metadata.schema_version # None

(***************************************************************************)
(* C18.  The merged metadata: the contact fields are those of the fetched  *)
(* meta.json, the six self-description fields those derived from           *)
(* repositories.json, and the overlay of the latter changes no contact     *)
(* field.                                                                  *)
(***************************************************************************)
C18_MergeDisjoint ==
    \A i \in Tasks :
        IsPopulated(i) =>
            /\ ~MetaJsonFailed(i) =>
                   LET meta == unwrap(MetaJsonAnswer(i).val)
                   IN  /\ Out(i).metadata.administrator = Some(meta.administrator)
                       /\ Out(i).metadata.email = Some(meta.email)
                       /\ Out(i).metadata.organisation = Some(meta.organisation)
                       /\ Out(i).metadata.custom = Some(meta.custom)
            /\ ReposJsonParsed(i) => MetadataGiven(Out(i).metadata, ReposJson(i))

\* Both files were fetched: the metadata has the fields of both.
C18_Witness ==
    \E i \in Tasks :
        /\ IsPopulated(i)
        /\ ~MetaJsonFailed(i)
        /\ ReposJsonParsed(i)
        /\ Out(i).metadata.administrator # None
        /\ Out(i).metadata.cvmfs_version = Some("2.11.3-1")
        /\ Out(i).metadata.os_id # None

(***************************************************************************)
(* C19.  A Populated outcome of detected backend S3 has none of the six    *)
(* self-description fields; one of detected backend CVMFS has              *)
(* schema_version.                                                         *)
(***************************************************************************)
C19_SelfDescriptionFields ==
    \A i \in Tasks :
        IsPopulated(i) =>
            /\ Out(i).backend_detected = "S3" => SelfDescriptionAbsent(Out(i).metadata)
            /\ Out(i).backend_detected = "CVMFS" => Out(i).metadata.schema_version # None

\* AutoDetect fell back to S3: contact fields but no self-description field.
C19_Witness ==
    \E i \in Tasks :
        /\ servers[i].backend_type = "AutoDetect"
        /\ IsPopulated(i)
        /\ Out(i).backend_detected = "S3"
        /\ Out(i).repositories # << >>
        /\ Out(i).metadata.administrator # None
        /\ SelfDescriptionAbsent(Out(i).metadata)

(***************************************************************************)
(* C20.  The GeoAPI probe is skipped, without failure, exactly for a       *)
(* Stratum0, an empty resolved set or a detected backend S3: then no geo   *)
(* request is issued and the Populated outcome has an empty response; in   *)
(* every other case one geo request is issued, after all repositories      *)
(* were scraped.                                                           *)
(***************************************************************************)
C20_GeoapiSkip ==
    \A i \in Tasks :
        /\ Cardinality(GeoRequests(i)) <= 1
        /\ \A k \in GeoRequests(i) :
               /\ ~GeoSkipped(i)
               /\ k = Len(task[i].sent)
               /\ MetaJsonAnswered(i) /\ k = MetaJsonIndex(i) + 1
               /\ \A n \in task[i].all_repos : RepoScraped(i, n)
        /\ MetaJsonAnswered(i) =>
               IF GeoSkipped(i)
               THEN /\ GeoRequests(i) = {}
                    /\ IsPopulated(i)
                    /\ Out(i).geoapi.response = << >>
               ELSE Cardinality(GeoRequests(i)) = 1

\* A Stratum1 detected as S3 was scraped without a probe.
C20_Witness ==
    \E i \in Tasks :
        /\ servers[i].server_type = "Stratum1"
        /\ task[i].backend_detected = "S3"
        /\ MetaJsonAnswered(i)
        /\ IsPopulated(i)
        /\ Out(i).repositories # << >>
        /\ GeoRequests(i) = {}
        /\ Out(i).geoapi.response = << >>

(***************************************************************************)
(* C21.  When the GeoAPI probe is issued and its fetch fails in transit or *)
(* with a non-2xx status, or its body holds a comma-separated token that   *)
(* is no non-negative integer (the empty body included), the outcome of    *)
(* the server is Failed with a GeoAPIFailure: the repositories and the     *)
(* metadata gathered before are not in it.                                 *)
(***************************************************************************)
GeoAnswered(i) == GeoRequests(i) \cap Answered(i)
GeoAnswer(i) == task[i].recv[CHOOSE k \in GeoAnswered(i) : TRUE]
IsIndex(token) == token # << >> /\ \A k \in 1..Len(token) : IsDigit(token[k])
GeoBodyUnparsable(body) == \E token \in Range(split(trim(body), ",")) : ~IsIndex(token)
GeoProbeFailed(i) ==
    \/ GeoAnswer(i).net # "ok"
    \/ GeoAnswer(i).net = "ok" /\ GeoBodyUnparsable(unwrap(GeoAnswer(i).val))
C21_GeoapiFailure ==
    \A i \in Tasks :
        (GeoAnswered(i) # {} /\ GeoProbeFailed(i)) =>
            /\ IsFailed(i)
            /\ Out(i).error.kind = "GeoAPIFailure"
            /\ DOMAIN Out(i) = {"tag", "hostname", "server_type", "backend_type", "error"}

\* The probe of a server whose repositories were scraped was answered by an
\* empty body.
C21_Witness ==
    \E i \in Tasks :
        /\ GeoAnswered(i) # {}
        /\ task[i].populated_repos # << >>
        /\ GeoAnswer(i).net = "ok"
        /\ unwrap(GeoAnswer(i).val) = << >>
        /\ IsFailed(i)
        /\ Out(i).error.kind = "GeoAPIFailure"

(***************************************************************************)
(* C22.  In every Populated outcome whose GeoAPI probe was issued, the     *)
(* response holds as many indices as there are candidate hosts: a response *)
(* of another length never reaches a Populated outcome.                    *)
(***************************************************************************)
C22_ResponseLength ==
    \A i \in Tasks :
        (IsPopulated(i) /\ GeoAnswered(i) # {}) =>
            Len(Out(i).geoapi.response) = Len(Out(i).geoapi.geoapi_hosts)

(***************************************************************************)
(* C23.  Every index of the response of a query produced by a scrape is a  *)
(* position of the candidate list, so that resolving the response to       *)
(* hostnames and checking it against an expected order by hostname return  *)
(* a value (a list, a boolean or a GeoAPIFailure) and never index outside  *)
(* the candidate list.                                                     *)
(***************************************************************************)
C23_IndicesValid ==
    \A i \in Tasks :
        IsPopulated(i) =>
            LET query == Out(i).geoapi
            IN  /\ \A k \in 1..Len(query.response) :
                       query.response[k] < Len(query.geoapi_hosts)
                /\ ~is_panic(map_response_order_to_geoapi_hostnames(query))
                /\ ~is_panic(check_against_expected_order_by_hostname(query, query.geoapi_hosts))

(***************************************************************************)
(* C27.  A repository is populated if and only if the fetch of its         *)
(* .cvmfs_status.json and the fetch and parse of its .cvmfspublished both  *)
(* succeed; a failure of either fails the repository with that error, the  *)
(* manifest is fetched only after the status was, and a populated          *)
(* repository carries the manifest and the status of these two fetches.    *)
(***************************************************************************)
StatusRequests(i) == {k \in Answered(i) : task[i].sent[k].endpoint = ".cvmfs_status.json"}
ManifestRequests(i) == {k \in Answered(i) : task[i].sent[k].endpoint = ".cvmfspublished"}
FailsRepository(i, k) ==
    /\ IsFailed(i)
    /\ Out(i).error = unwrap(RepoFetchResult(i, k).err)
    /\ k = Len(task[i].sent)
    /\ task[i].sent[k].repo \notin NameSet(task[i].populated_repos)
C27_RepoScrape ==
    \A i \in Tasks :
        /\ \A k \in StatusRequests(i) :
               IF RepoFetchResult(i, k).ok
               THEN /\ Len(task[i].sent) > k
                    /\ task[i].sent[k + 1] = ManifestRequest(task[i].sent[k].repo)
               ELSE FailsRepository(i, k)
        /\ \A k \in ManifestRequests(i) :
               /\ k - 1 \in StatusRequests(i)
               /\ task[i].sent[k - 1].repo = task[i].sent[k].repo
               /\ RepoFetchResult(i, k - 1).ok
               /\ IF RepoFetchResult(i, k).ok
                  THEN \E j \in 1..Len(task[i].populated_repos) :
                           task[i].populated_repos[j] =
                               [name |-> task[i].sent[k].repo,
                                manifest |-> unwrap(RepoFetchResult(i, k).val),
                                last_snapshot |-> unwrap(RepoFetchResult(i, k - 1).val).last_snapshot,
                                last_gc |-> unwrap(RepoFetchResult(i, k - 1).val).last_gc]
                  ELSE FailsRepository(i, k)
        /\ \A j \in 1..Len(task[i].populated_repos) :
               \E k \in ManifestRequests(i) :
                   /\ task[i].sent[k].repo = task[i].populated_repos[j].name
                   /\ RepoFetchResult(i, k).ok
                   /\ RepoFetchResult(i, k - 1).ok

(***************************************************************************)
(* Vocabulary of the library calls.                                        *)
(***************************************************************************)
CalledFn(fn) == call # None /\ unwrap(call).fn = fn
Returned == unwrap(call).ret
Argument == unwrap(call).arg
SameHosts(query, expected_order) == Range(query.geoapi_hosts) = Range(expected_order)
LengthMismatch(query) == Len(query.response) # Len(query.geoapi_hosts)
IsGeoAPIFailure(ret) == ~ret.ok /\ ~is_panic(ret) /\ unwrap(ret.err).kind = "GeoAPIFailure"
\* The hostnames the response stands for, when each index is a position of a
\* candidate list of the same length.
Resolvable(query) ==
    /\ ~LengthMismatch(query)
    /\ \A k \in 1..Len(query.response) : query.response[k] < Len(query.geoapi_hosts)
ResolvesTo(query, order) ==
    /\ Resolvable(query)
    /\ Len(order) = Len(query.response)
    /\ \A k \in 1..Len(order) : order[k] = query.geoapi_hosts[query.response[k] + 1]

(***************************************************************************)
(* C24.  check_against_expected_order_by_id returns true exactly when the  *)
(* expected order equals the response, in length and in order: a           *)
(* permutation and a sequence of another length give false, never an       *)
(* error.                                                                  *)
(***************************************************************************)
C24_ByIdExact ==
    CalledFn("check_against_expected_order_by_id") =>
        LET response == receiver.val.response
        IN  /\ Returned \in BOOLEAN
            /\ Returned <=> /\ Len(Argument) = Len(response)
                            /\ \A k \in 1..Len(response) : Argument[k] = response[k]

\* The check was given a permutation of the response and said false.
C24_Witness ==
    /\ CalledFn("check_against_expected_order_by_id")
    /\ Len(Argument) = 2
    /\ receiver.val.response = << Argument[2], Argument[1] >>
    /\ Argument[1] # Argument[2]
    /\ Returned = FALSE

(***************************************************************************)
(* C25.  check_against_expected_order_by_hostname first compares the       *)
(* candidate hosts and the expected hosts as unordered collections: when a *)
(* candidate is missing from the expected order or the expected order      *)
(* holds a host that is no candidate, it returns false without an error,   *)
(* whatever the response; when the hosts are the same it returns true      *)
(* exactly when the response resolves to the expected sequence.            *)
(***************************************************************************)
C25_ByHostname ==
    CalledFn("check_against_expected_order_by_hostname") =>
        IF \/ \E h \in Range(receiver.val.geoapi_hosts) : ~contains(Argument, h)
           \/ \E h \in Range(Argument) : ~contains(receiver.val.geoapi_hosts, h)
        THEN Returned = Ok(FALSE)
        ELSE (Returned = Ok(TRUE)) <=> ResolvesTo(receiver.val, Argument)

\* A candidate was missing from the expected order, the response was not even
\* of the length of the candidate list, and the check said false.
C25_Witness ==
    /\ CalledFn("check_against_expected_order_by_hostname")
    /\ \E h \in Range(receiver.val.geoapi_hosts) : ~contains(Argument, h)
    /\ Argument # << >>
    /\ LengthMismatch(receiver.val)
    /\ Returned = Ok(FALSE)

(***************************************************************************)
(* C26, as stated.  In the by-hostname check a response whose length       *)
(* differs from that of the candidate list gives a GeoAPIFailure error for *)
(* every expected order, never a plain false.                              *)
(***************************************************************************)
C26_AsStated ==
    (CalledFn("check_against_expected_order_by_hostname") /\ LengthMismatch(receiver.val)) =>
        IsGeoAPIFailure(Returned)

(***************************************************************************)
(* C26, amended.  Resolving a response whose length differs from that of   *)
(* the candidate list gives a GeoAPIFailure error; the by-hostname check   *)
(* gives that error when the expected hosts are the candidate hosts, and   *)
(* plain false when they are not, because the hosts are compared first.    *)
(***************************************************************************)
C26_LengthMismatch ==
    /\ (CalledFn("map_response_order_to_geoapi_hostnames") /\ LengthMismatch(receiver.val)) =>
           IsGeoAPIFailure(Returned)
    /\ (CalledFn("check_against_expected_order_by_hostname") /\ LengthMismatch(receiver.val)) =>
           IF SameHosts(receiver.val, Argument)
           THEN IsGeoAPIFailure(Returned)
           ELSE Returned = Ok(FALSE)

\* The probe was skipped (no index for a non-empty candidate list) and the
\* check against the candidates themselves gave the error.
C26_Witness ==
    /\ CalledFn("check_against_expected_order_by_hostname")
    /\ receiver.val.response = << >>
    /\ receiver.val.geoapi_hosts # << >>
    /\ Argument = receiver.val.geoapi_hosts
    /\ IsGeoAPIFailure(Returned)

(***************************************************************************)
(* Vocabulary of the manifest text.                                        *)
(***************************************************************************)
IsMarker(line) == line = << "-", "-" >>
MarkerAt(ls) ==
    IF \E k \in 1..Len(ls) : IsMarker(ls[k])
    THEN CHOOSE k \in 1..Len(ls) : IsMarker(ls[k]) /\ \A j \in 1..(k - 1) : ~IsMarker(ls[j])
    ELSE Len(ls) + 1
LinesBefore(content) == SubSeq(lines(content), 1, MarkerAt(lines(content)) - 1)
LinesAfter(content) == SubSeq(lines(content), MarkerAt(lines(content)) + 1, Len(lines(content)))
TagsOf(content) == {Head(line) : line \in {l \in Range(LinesBefore(content)) : l # << >>}}
\* The value of the last line that starts with the tag.
ValueOf(content, tag) ==
    LET before == LinesBefore(content)
        at == {k \in 1..Len(before) : before[k] # << >> /\ Head(before[k]) = tag}
    IN  Tail(before[CHOOSE k \in at : \A j \in at : j <= k])
HashTags == {"C", "R", "X", "H", "M", "Y"}
NumberTags == {"B", "T", "D", "S"}
IsHexValue(v) == Len(v) % 2 = 0 /\ \A k \in 1..Len(v) : is_ascii_hexdigit(v[k])
IsNumberValue(v, tag) == parse_signed(v, tag \in {"D", "S"}).ok
AbsentTags(content) == Range(FieldOrder) \ TagsOf(content)
MalformedTags(content) ==
    {tag \in TagsOf(content) :
        \/ tag \in HashTags /\ ~IsHexValue(ValueOf(content, tag))
        \/ tag \in NumberTags /\ ~IsNumberValue(ValueOf(content, tag), tag)}
RECURSIVE Concat(_)
Concat(ls) == IF ls = << >> THEN << >> ELSE Head(ls) \o Concat(Tail(ls))

(***************************************************************************)
(* C28.  The failures of the manifest parse name the field: a missing      *)
(* mandatory tag gives MissingField with that tag, a malformed number and  *)
(* a malformed hash each give a parse error with the tag of the field;     *)
(* only L may be absent, and is then the empty string.                     *)
(***************************************************************************)
C28_FieldIdentified ==
    (CalledFn("from_str") /\ << >> \notin Range(LinesBefore(receiver.val))) =>
        LET absent == AbsentTags(receiver.val)
            malformed == MalformedTags(receiver.val)
        IN  /\ \A tag \in absent :
                   (absent = {tag} /\ malformed = {}) =>
                       /\ ~Returned.ok
                       /\ unwrap(Returned.err).kind = "MissingField"
                       /\ unwrap(Returned.err).detail = << tag >>
            /\ \A tag \in malformed :
                   (absent = {} /\ malformed = {tag}) =>
                       /\ ~Returned.ok
                       /\ unwrap(Returned.err).kind = "ParseError"
                       /\ Head(unwrap(Returned.err).detail) = tag
            /\ (absent = {} /\ malformed = {}) =>
                   /\ Returned.ok
                   /\ "L" \notin TagsOf(receiver.val) => unwrap(Returned.val).l = << >>

(***************************************************************************)
(* C29.  The lines before the first "--" line are tag/value pairs (the     *)
(* first character is the tag, case-sensitive) and give nothing to the     *)
(* signature; every line after it, without exception, is appended to the   *)
(* signature in order without separator, and none is read as a field.      *)
(***************************************************************************)
FieldsOf(manifest) == [manifest EXCEPT !.signature = << >>]
C29_LineHandling ==
    (CalledFn("from_str") /\ Returned.ok) =>
        LET fields_only ==
                Manifest_from_str(JoinLines(Append(LinesBefore(receiver.val), << "-", "-" >>)))
        IN  /\ unwrap(Returned.val).signature = Concat(LinesAfter(receiver.val))
            /\ unwrap(Returned.val).n = ValueOf(receiver.val, "N")
            /\ fields_only.ok
            /\ FieldsOf(unwrap(Returned.val)) = unwrap(fields_only.val)

(***************************************************************************)
(* C30.  Round trip: the text written for a valid manifest record (one     *)
(* line per field, the "--" line, the signature) parses to that record,    *)
(* the signature included.                                                 *)
(***************************************************************************)
C30_RoundTrip ==
    CalledFn("from_str") =>
        \A m \in ManifestRecords :
            receiver.val = EncodedManifest[m] =>
                Returned.ok /\ unwrap(Returned.val) = m

(***************************************************************************)
(* C31.  Timestamps are advisory: a last_geodb_update, last_snapshot or    *)
(* last_gc that is not in the expected date format never makes the scrape  *)
(* of a server fail, the string is stored as received; try_into_datetime   *)
(* on a stored timestamp returns absent for an absent one and a            *)
(* ConversionError with the string for one that does not parse.            *)
(***************************************************************************)
MalformedDates == {"Tue Jun 18 13:40:04 2024", "Sun Jun 16 00:00:59 2024"}
StoredTimestamps(i) ==
    {task[i].metadata.last_geodb_update}
        \cup {task[i].populated_repos[j].last_snapshot : j \in 1..Len(task[i].populated_repos)}
        \cup {task[i].populated_repos[j].last_gc : j \in 1..Len(task[i].populated_repos)}
Coerced(timestamp) ==
    LET r == try_into_datetime(timestamp)
    IN  IF timestamp = None THEN r.ok /\ unwrap(r.val) = None
        ELSE IF unwrap(timestamp) \in MalformedDates
        THEN /\ ~r.ok
             /\ unwrap(r.err).kind = "ConversionError"
             /\ unwrap(r.err).detail = timestamp
        ELSE r.ok /\ unwrap(r.val) # None
C31_TimestampsAdvisory ==
    \A i \in Tasks :
        /\ IsFailed(i) =>
               /\ Out(i).error.kind # "ChronoParseError"
               /\ Out(i).error.kind = "ConversionError" =>
                      ReposJsonParsed(i) /\ BadVersion(ReposJson(i))
        /\ (ReposJsonParsed(i) /\ ReposJsonValidated(i)) =>
               task[i].metadata.last_geodb_update = ReposJson(i).last_geodb_update
        /\ \A k \in ManifestRequests(i) :
               RepoFetchResult(i, k).ok =>
                   \E j \in 1..Len(task[i].populated_repos) :
                       /\ task[i].populated_repos[j].name = task[i].sent[k].repo
                       /\ task[i].populated_repos[j].last_snapshot = StatusJSON.last_snapshot
                       /\ task[i].populated_repos[j].last_gc = StatusJSON.last_gc
        /\ IsPopulated(i) =>
               /\ Out(i).metadata.last_geodb_update = task[i].metadata.last_geodb_update
               /\ Out(i).repositories = task[i].populated_repos
        /\ \A timestamp \in StoredTimestamps(i) : Coerced(timestamp)

\* A server was scraped although its self-description and the status of its
\* repository held dates that do not parse.
C31_Witness ==
    \E i \in Tasks :
        /\ IsPopulated(i)
        /\ Out(i).metadata.last_geodb_update = Some("Tue Jun 18 13:40:04 2024")
        /\ Out(i).repositories # << >>
        /\ Out(i).repositories[1].last_gc = Some("Sun Jun 16 00:00:59 2024")
        /\ ~try_into_datetime(Out(i).repositories[1].last_gc).ok
        /\ try_into_datetime(Out(i).repositories[1].last_snapshot).ok

(***************************************************************************)
(* C32.  Once repositories.json was fetched, AutoDetect behaves as the     *)
(* explicit CVMFS backend: a server configured AutoDetect and a server of  *)
(* the same role configured CVMFS that sent the same requests and received *)
(* the same answers have the same outcome variant, the same failure cause  *)
(* when Failed, and the same repositories, metadata, detected backend and  *)
(* GeoAPI response when Populated.                                         *)
(***************************************************************************)
\* The requests of task i without the random strings of their urls.
Requested(i) == [k \in 1..Len(task[i].sent) |-> [task[i].sent[k] EXCEPT !.token = ""]]
C32_AutoDetectAsCVMFS ==
    \A x, y \in Tasks :
        ( /\ servers[x].backend_type = "AutoDetect"
          /\ servers[y].backend_type = "CVMFS"
          /\ servers[x].server_type = servers[y].server_type
          /\ task[x].pc = "done" /\ task[y].pc = "done"
          /\ ReposJsonParsed(x) /\ ReposJsonParsed(y)
          /\ task[x].recv = task[y].recv )
            => /\ Requested(x) = Requested(y)
               /\ SameOutcome(Out(x), Out(y))

(***************************************************************************)
(* C33.  The fetches of one server are in a fixed order, each issued after *)
(* the one before was answered: repositories.json (if fetched) and the     *)
(* role check before any repository; every repository of the resolved set  *)
(* before meta.json; meta.json before the GeoAPI probe; the status of a    *)
(* repository before its manifest.                                         *)
(***************************************************************************)
PhaseOf(req) ==
    IF req.endpoint = "cvmfs/info/v1/repositories.json" THEN 0
    ELSE IF IsRepoRequest(req) THEN 1
    ELSE IF req.endpoint = "cvmfs/info/v1/meta.json" THEN 2
    ELSE 3
C33_PhaseOrder ==
    \A i \in Tasks :
        LET sent == task[i].sent
        IN  /\ Len(sent) <= Len(task[i].recv) + 1
            /\ \A k, l \in 1..Len(sent) :
                   k < l => /\ PhaseOf(sent[k]) <= PhaseOf(sent[l])
                            /\ PhaseOf(sent[k]) = PhaseOf(sent[l]) => IsRepoRequest(sent[k])
            /\ (Len(sent) > 1 /\ PhaseOf(sent[1]) = 0) =>
                   \/ /\ ReposJsonParsed(i)
                      /\ ~RoleViolated(servers[i].server_type, ReposJson(i))
                   \/ /\ servers[i].backend_type = "AutoDetect"
                      /\ ReposJsonAnswer(i).net # "ok"
            /\ \A k \in 1..Len(sent) :
                   /\ PhaseOf(sent[k]) = 2 => \A n \in task[i].all_repos : RepoScraped(i, n)
                   /\ PhaseOf(sent[k]) = 3 => MetaJsonAnswered(i) /\ MetaJsonIndex(i) = k - 1
                   /\ sent[k].endpoint = ".cvmfspublished" =>
                          /\ sent[k - 1] = StatusRequest(sent[k].repo)
                          /\ RepoFetchResult(i, k - 1).ok

\* All four phases happened for a server with two repositories.
C33_Witness ==
    \E i \in Tasks :
        /\ Len(task[i].sent) = 7
        /\ Len(task[i].recv) = 7
        /\ PhaseOf(task[i].sent[1]) = 0
        /\ PhaseOf(task[i].sent[6]) = 2
        /\ PhaseOf(task[i].sent[7]) = 3

(***************************************************************************)
(* C34.  After a terminal failure of a server scrape (a failed             *)
(* self-description step other than the AutoDetect fallback, a failed      *)
(* validation, an empty S3 list, a failed repository fetch, a failed       *)
(* GeoAPI probe) no further fetch is issued for that server: the failed    *)
(* fetch is the last request of the server.                                *)
(***************************************************************************)
TerminalFailure(i, k) ==
    \/ /\ PhaseOf(task[i].sent[k]) = 0
       /\ ReposJsonStepFails(i)
       /\ ~(servers[i].backend_type = "AutoDetect" /\ ReposJsonAnswer(i).net # "ok")
    \/ RepoFetchFailed(i, k)
    \/ PhaseOf(task[i].sent[k]) = 3 /\ GeoProbeFailed(i)
C34_NoFetchAfterFailure ==
    \A i \in Tasks :
        /\ \A k \in Answered(i) : TerminalFailure(i, k) => k = Len(task[i].sent)
        /\ IsFailed(i) =>
               /\ Len(task[i].sent) = Len(task[i].recv)
               /\ Out(i).error.kind = "EmptyRepositoryList" => task[i].sent = << >>
               /\ task[i].sent # << >> => TerminalFailure(i, Len(task[i].sent))
        /\ phase = "invalid" => task[i].sent = << >>

\* The status fetch of the first of two repositories failed: nothing was
\* requested after it.
C34_Witness ==
    \E i \in Tasks :
        /\ Cardinality(task[i].all_repos) = 2
        /\ IsFailed(i)
        /\ task[i].sent[Len(task[i].sent)].endpoint = ".cvmfs_status.json"
        /\ Len(task[i].sent) = 2
        /\ PhaseOf(task[i].sent[1]) = 0

(***************************************************************************)
(* C35.  The repositories of a Populated outcome are the resolved set,     *)
(* each name once, and the k-th of them has the name under which its       *)
(* manifest was requested, whatever field N of that manifest says.         *)
(***************************************************************************)
C35_PopulatedNames ==
    \A i \in Tasks :
        IsPopulated(i) =>
            LET repos == Out(i).repositories
                Manifests == {k \in 1..Len(task[i].sent) :
                                  task[i].sent[k].endpoint = ".cvmfspublished"}
                \* The index of the k-th manifest request.
                Nth(k) == CHOOSE m \in Manifests :
                              Cardinality({l \in Manifests : l <= m}) = k
            IN  /\ NameSet(repos) = task[i].all_repos
                /\ Len(repos) = Cardinality(task[i].all_repos)
                /\ Cardinality(Manifests) = Len(repos)
                /\ \A k \in 1..Len(repos) :
                       /\ repos[k].name = task[i].sent[Nth(k)].repo
                       /\ Some(repos[k].manifest) = RepoFetchResult(i, Nth(k)).val

\* Two repositories, neither of them dev.eessi.io, whose manifests both name
\* "dev".
C35_Witness ==
    \E i \in Tasks :
        /\ IsPopulated(i)
        /\ NamesOf(Out(i).repositories) = << "riscv.eessi.io", "software.eessi.io" >>
        /\ \A k \in 1..2 : Out(i).repositories[k].manifest.n = << "d", "e", "v" >>

(***************************************************************************)
(* C36.  A Failed outcome carries the hostname, the server type and the    *)
(* configured backend type of the server it was scraped from, and a cause; *)
(* a server configured AutoDetect is reported as AutoDetect also when the  *)
(* failure came after the backend was detected.                            *)
(***************************************************************************)
C36_FailedFrame ==
    \A i \in Tasks :
        IsFailed(i) =>
            /\ Out(i).hostname = servers[i].hostname
            /\ Out(i).server_type = servers[i].server_type
            /\ Out(i).backend_type = servers[i].backend_type
            /\ Out(i).error.wrapper \in {"ScrapeError", "ManifestError"}
            /\ DOMAIN Out(i) = {"tag", "hostname", "server_type", "backend_type", "error"}

\* An AutoDetect server detected as CVMFS failed at a repository.
C36_Witness ==
    \E i \in Tasks :
        /\ IsFailed(i)
        /\ servers[i].backend_type = "AutoDetect"
        /\ task[i].backend_detected = "CVMFS"
        /\ RepoFetchFailed(i, Len(task[i].sent))
        /\ Out(i).backend_type = "AutoDetect"

(***************************************************************************)
(* C37.  The outcome of a scrape is a function of the server, the          *)
(* configuration and the answers of the host: neither the order nor the    *)
(* repetition of the entries of the forced list, of the ignore list and of *)
(* the arrays of repositories.json changes the resolved set, and two       *)
(* scrapes of servers of the same kind that were given the same answers    *)
(* have the same variant, the same repositories in the same order and the  *)
(* same cause of failure, whatever random string their GeoAPI urls had.    *)
(***************************************************************************)
\* The lists with the entries of s in any order, one of them possibly repeated.
Variants(s) == {v \in SeqsUpTo(Range(s), Len(s) + 1) : Range(v) = Range(s)}
NamesOfList(list) == [k \in 1..Len(list) |-> list[k].name]
\* The cause of a failure, without the name of the host it was met on.
Cause(i) ==
    LET e == Out(i).error
    IN  [wrapper |-> e.wrapper, kind |-> e.kind,
         detail |-> IF e.detail # << >> /\ e.detail[1] = servers[i].hostname
                    THEN Tail(e.detail) ELSE e.detail]
C37_Reproducible ==
    /\ \A i \in Tasks :
           /\ \A f \in Variants(repositories), g \in Variants(ignored_repositories) :
                  scrape_start(NewTask, servers[i],
                               [ScrapeArgs EXCEPT !.repositories = f,
                                                  !.ignored_repositories = g])
                      = scrape_start(NewTask, servers[i], ScrapeArgs)
           /\ (ReposJsonAnswered(i) /\ ReposJsonParsed(i)) =>
                  \A a \in Variants(NamesOfList(ReposJson(i).repositories)),
                     b \in Variants(NamesOfList(ReposJson(i).replicas)) :
                      LET permuted == [ReposJson(i) EXCEPT !.repositories = RepoList(a),
                                                           !.replicas = RepoList(b)]
                      IN  /\ extend_all_repos({}, permuted, task[i].ignore, FALSE)
                                 = extend_all_repos({}, ReposJson(i), task[i].ignore, FALSE)
                          /\ validate_repo_json_and_server_type(servers[i], permuted).ok
                                 = validate_repo_json_and_server_type(servers[i], ReposJson(i)).ok
    /\ \A x, y \in Tasks :
           ( /\ servers[x].server_type = servers[y].server_type
             /\ servers[x].backend_type = servers[y].backend_type
             /\ task[x].pc = "done" /\ task[y].pc = "done"
             /\ task[x].recv = task[y].recv )
               => /\ Out(x).tag = Out(y).tag
                  /\ IsPopulated(x) =>
                         /\ Out(x).repositories = Out(y).repositories
                         /\ Out(x).metadata = Out(y).metadata
                         /\ Out(x).geoapi.response = Out(y).geoapi.response
                  /\ IsFailed(x) => Cause(x) = Cause(y)

(***************************************************************************)
(* C38.  Manifest::from_str is total: for every text (the empty text, a    *)
(* text with an empty line before the "--" line, a line of one character,  *)
(* a tag on several lines) it returns a Manifest or a ManifestError and    *)
(* never aborts; of several lines with one tag the last gives the value.   *)
(***************************************************************************)
C38_Total ==
    CalledFn("from_str") =>
        /\ ~is_panic(Returned)
        /\ ~Returned.ok => unwrap(Returned.err).wrapper = "ManifestError"
        /\ Returned.ok =>
               /\ unwrap(Returned.val).n = ValueOf(receiver.val, "N")
               /\ Some(unwrap(Returned.val).b)
                      = parse_signed(ValueOf(receiver.val, "B"), FALSE).val

(***************************************************************************)
(* C39.  Scraper::validate() fails exactly when a server uses S3 and the   *)
(* forced list is empty, and after it succeeded no server configured S3    *)
(* ends the batch scrape as Failed with EmptyRepositoryList, whatever the   *)
(* ignore list.                                                            *)
(***************************************************************************)
C39_ValidateSufficient ==
    (entry = "builder" /\ phase # "with_servers") =>
        /\ phase = "invalid" <=>
               /\ \E i \in Tasks : servers[i].backend_type = "S3"
               /\ repositories = << >>
        /\ \A i \in Tasks :
               (servers[i].backend_type = "S3" /\ IsFailed(i))
                   => Out(i).error.kind # "EmptyRepositoryList"

====
